---- MODULE Spec2Model ----
(***************************************************************************)
(* Model of khulnasoft-ci/cli_driver.py: the result ledger, the outcome    *)
(* classifier, the named checks and the driver that sequences them.        *)
(*                                                                         *)
(* The external command-line tool is the environment.  Every invocation    *)
(* (subprocess.run + json.loads) is an input: a result record drawn from a *)
(* small set that covers exit 0 with a JSON payload, exit 0 with empty or  *)
(* undecodable output, a non-zero exit with a JSON error body, with a JSON *)
(* string, with undecodable output, and a process that cannot be started.  *)
(***************************************************************************)
EXTENDS Integers, Sequences, FiniteSets, TLC

VARIABLES
    positive_tests,   \* {"pass": [], "fail": []}                    (line 2465)
    negative_tests,   \* {"pass": [], "fail": []}                    (line 2466)
    root_context,     \* module-level dict, filled by run_cli_driver (line 2467)
    context,          \* the dict the current check receives
    command,          \* sys.argv[1] if len(sys.argv) == 2 else "all"
    registry_env,     \* REGISTRY_URL, REGISTRY_USER and REGISTRY_TOKEN all set
    pc,               \* index of the next call of the selected program
    status,           \* "start" | "running" | "exited" | "crashed", and the
                      \* position of the caller in the smaller specifications
    exit_code,        \* process exit status, -1 while running
    summary,          \* what log_results_summary logged, <<>> before it ran
    calls,            \* number of log_results_simple / log_explicit_failure calls
    faulty,           \* number of checks so far with a non-nominal tool result
    running,          \* the child processes started and not yet exited
    last              \* what the last step did (observation only)

vars == <<positive_tests, negative_tests, root_context, context, command,
          registry_env, pc, status, exit_code, summary, calls,
          faulty, running, last>>

---------------------------------------------------------------------------
(* Bounds *)

\* At most this many checks of one run see a tool result other than the
\* nominal one, the answer of a healthy backend to that call.
MaxFaultyChecks == 1

\* len(config.test_images)
NumTestImages == 2

\* Most content types one 'image content' listing returns.
MaxContentTypes == 2

\* Ledger size explored by the classifier specification.
MaxRecords == 3

---------------------------------------------------------------------------
(* cli_driver_config: the lists the checks iterate over.  The module is    *)
(* not part of the sources; the metadata types are the three the comment   *)
(* in image_metadata names, the other lists are the shortest that make     *)
(* every loop run.                                                         *)

metadata_types == <<"manifest", "docker_history", "dockerfile">>

vulnerability_types == <<"os", "non-os">>

malware_images == <<"malware-image">>

clean_images == <<>>

repositories == <<"repository">>

---------------------------------------------------------------------------
(* Tool results *)

MsgInvalidState ==
    "Invalid account state change requested. Cannot go from state enabled to state deleting"

MsgLatestTag ==
    "cannot delete image that is the latest of its tags, and has active subscription"

MsgRegistryExists == "registry already exists in DB"

MsgOther == "resource not found"

Forbidden == 403

\* One tool invocation as the harness sees it.
\*   exc     : what subprocess.run(check=True) raises
\*   body    : shape of stdout
\*   val     : the field the check reads from a success payload, or the text of
\*             a JSON string
\*   message, httpcode : fields of a JSON error body
Result(exc, body, val, message, httpcode) ==
    [exc |-> exc, body |-> body, val |-> val, message |-> message, httpcode |-> httpcode]

Ok(body, val) == Result("none", body, val, "", 0)

Rejected(message, httpcode) == Result("CalledProcessError", "object", "None", message, httpcode)

NotRun == Result("not_run", "none", "None", "", 0)

Rejections ==
    { Rejected(MsgInvalidState, 400), Rejected(MsgLatestTag, 400),
      Rejected(MsgRegistryExists, 400), Rejected(MsgOther, 404),
      Rejected(MsgOther, Forbidden) }

Failures ==
    Rejections \cup
    { Result("CalledProcessError", "string", "Unauthorized", "", 0),
      Result("CalledProcessError", "nonjson", "None", "", 0),
      Result("OSError", "none", "None", "", 0) }

\* All results of an invocation whose success payload carries one of vals.
Results(vals) ==
    { Ok(b, v) : b \in {"object", "array"}, v \in vals } \cup
    { Ok("empty_object", "None"), Ok("empty_array", "None"), Ok("nonjson", "None") } \cup
    Failures

\* Results of an invocation whose output is not read (the 'wait' commands).
WaitResults ==
    { Ok("array", "analyzed"),
      Result("CalledProcessError", "nonjson", "None", "", 0),
      Result("OSError", "none", "None", "", 0) }

---------------------------------------------------------------------------
(* What the Python expressions of the checks do with a result *)

\* subprocess.run(..., check=True) raises
RunRaises(r) == r.exc # "none"

\* json.loads(stdout) raises
LoadsRaises(r) == r.body \in {"nonjson", "none"}

\* response.get(key) raises (AttributeError on a list or a str)
GetRaises(r) == LoadsRaises(r) \/ r.body \notin {"object", "empty_object"}

\* response.get(key) on a success payload
Get(r) == IF r.body = "object" THEN r.val ELSE "None"

\* response[0][key] raises (IndexError, KeyError, TypeError)
IndexRaises(r) == LoadsRaises(r) \/ r.body # "array"

\* response[0][key]
Index(r) == r.val

\* not response
Falsy(r) == r.body \in {"empty_object", "empty_array"}

---------------------------------------------------------------------------
(* The frame a check works on: the ledger, the context it was given, the   *)
(* commands it ran so far, and whether an exception is propagating.        *)

Frame(pos, neg, n, ctx) ==
    [pos |-> pos, neg |-> neg, calls |-> n, ctx |-> ctx, cmds |-> <<>>, exc |-> FALSE]

\* assemble_command + subprocess.run: the command goes out with the context's user
Run(S, args) == [S EXCEPT !.cmds = Append(@, [user |-> S.ctx.user, args |-> args])]

\* an exception leaves the function
Raise(S) == [S EXCEPT !.exc = TRUE]

\* "{0} - {1}".format(action, message)
Format(action, message) == <<action>> \o message

\* log_explicit_failure with its two branches appending to "pass"
log_explicit_failure_pass_bucket(S, test_type, action, message) ==
    IF test_type = "positive"
    THEN [S EXCEPT !.pos.pass = Append(@, Format(action, message)), !.calls = @ + 1]
    ELSE [S EXCEPT !.neg.pass = Append(@, Format(action, message)), !.calls = @ + 1]

log_explicit_failure(S, test_type, action, message) ==
    IF test_type = "positive"
    THEN [S EXCEPT !.pos.fail = Append(@, Format(action, message)), !.calls = @ + 1]
    ELSE [S EXCEPT !.neg.fail = Append(@, Format(action, message)), !.calls = @ + 1]

log_results_simple_swapped(S, desired_state, state, test_type, action, message) ==
    IF state = desired_state
    THEN IF test_type = "positive"
         THEN [S EXCEPT !.pos.pass = Append(@, Format(action, message)), !.calls = @ + 1]
         ELSE [S EXCEPT !.neg.pass = Append(@, Format(action, message)), !.calls = @ + 1]
    ELSE IF test_type = "positive"
         THEN [S EXCEPT !.pos.fail = Append(@, Format(action, message)), !.calls = @ + 1]
         ELSE [S EXCEPT !.neg.fail = Append(@, Format(action, message)), !.calls = @ + 1]

log_results_simple_double(S, desired_state, state, test_type, action, message) ==
    IF state = desired_state
    THEN IF test_type = "positive"
         THEN [S EXCEPT !.pos.pass = Append(@, Format(action, message)), !.calls = @ + 1]
         ELSE [S EXCEPT !.neg.fail = Append(@, Format(action, message)), !.calls = @ + 1]
    ELSE IF test_type = "positive"
         THEN [S EXCEPT !.pos.fail = Append(@, Format(action, message)),
                        !.neg.pass = Append(@, Format(action, message)), !.calls = @ + 1]
         ELSE [S EXCEPT !.neg.pass = Append(@, Format(action, message)), !.calls = @ + 1]

log_results_simple_overwrite(S, desired_state, state, test_type, action, message) ==
    IF state = desired_state
    THEN IF test_type = "positive"
         THEN [S EXCEPT !.pos.pass = <<Format(action, message)>>, !.calls = @ + 1]
         ELSE [S EXCEPT !.neg.fail = Append(@, Format(action, message)), !.calls = @ + 1]
    ELSE IF test_type = "positive"
         THEN [S EXCEPT !.pos.fail = Append(@, Format(action, message)), !.calls = @ + 1]
         ELSE [S EXCEPT !.neg.pass = Append(@, Format(action, message)), !.calls = @ + 1]

\* log_results_simple taking a mismatch under negative polarity for a
\* failure too
log_results_simple_negative_fail(S, desired_state, state, test_type, action, message) ==
    IF state = desired_state
    THEN IF test_type = "positive"
         THEN [S EXCEPT !.pos.pass = Append(@, Format(action, message)), !.calls = @ + 1]
         ELSE [S EXCEPT !.neg.fail = Append(@, Format(action, message)), !.calls = @ + 1]
    ELSE IF test_type = "positive"
         THEN [S EXCEPT !.pos.fail = Append(@, Format(action, message)), !.calls = @ + 1]
         ELSE [S EXCEPT !.neg.fail = Append(@, Format(action, message)), !.calls = @ + 1]

log_results_simple(S, desired_state, state, test_type, action, message) ==
    IF state = desired_state
    THEN IF test_type = "positive"
         THEN [S EXCEPT !.pos.pass = Append(@, Format(action, message)), !.calls = @ + 1]
         ELSE [S EXCEPT !.neg.fail = Append(@, Format(action, message)), !.calls = @ + 1]
    ELSE IF test_type = "positive"
         THEN [S EXCEPT !.pos.fail = Append(@, Format(action, message)), !.calls = @ + 1]
         ELSE [S EXCEPT !.neg.pass = Append(@, Format(action, message)), !.calls = @ + 1]

---------------------------------------------------------------------------
(* Account checks *)

\* Results of a set-up call made with log=False.
HelperResults ==
    { Ok("object", "enabled"), Rejected(MsgOther, 404), Result("OSError", "none", "None", "", 0) }

account_add(S, test_type, log, r) ==
    LET S1 == Run(S, "account add") IN
    IF RunRaises(r) \/ GetRaises(r)
    THEN IF log
         THEN log_explicit_failure(S1, test_type, "account_add", <<"failed to add account">>)
         ELSE S1
    ELSE IF log
         THEN log_results_simple(S1, "enabled", Get(r), test_type, "account_add",
                                 <<"account state", Get(r)>>)
         ELSE S1

account_get(S, test_type, r) ==
    LET S1 == Run(S, "account get") IN
    IF RunRaises(r) \/ GetRaises(r)
    THEN log_explicit_failure(S1, test_type, "account_get", <<"failed to get account">>)
    ELSE log_results_simple(S1, "enabled", Get(r), test_type, "account_get",
                            <<"account state", Get(r)>>)

account_disable(S, test_type, r) ==
    LET S1 == Run(S, "account disable") IN
    IF RunRaises(r) \/ GetRaises(r)
    THEN log_explicit_failure(S1, test_type, "account_disable", <<"failed to disable account">>)
    ELSE log_results_simple(S1, "disabled", Get(r), test_type, "account_disable",
                            <<"account state", Get(r)>>)

\* account_enable logging under the action name of the check it was copied from
account_enable_copied_action(S, test_type, r) ==
    LET S1 == Run(S, "account enable") IN
    IF RunRaises(r) \/ GetRaises(r)
    THEN log_explicit_failure(S1, test_type, "account_enable", <<"failed to enable account">>)
    ELSE log_results_simple(S1, "enabled", Get(r), test_type, "account_get",
                            <<"account state", Get(r)>>)

account_enable(S, test_type, r) ==
    LET S1 == Run(S, "account enable") IN
    IF RunRaises(r) \/ GetRaises(r)
    THEN log_explicit_failure(S1, test_type, "account_enable", <<"failed to enable account">>)
    ELSE log_results_simple(S1, "enabled", Get(r), test_type, "account_enable",
                            <<"account state", Get(r)>>)

account_del_synthesized_deleting(S, test_type, r) ==
    LET S1 == Run(S, "account del") IN
    IF ~RunRaises(r) /\ ~GetRaises(r)
    THEN log_results_simple(S1, "deleting", Get(r), test_type, "account_del",
                            <<"account state", Get(r)>>)
    ELSE IF r.exc = "CalledProcessError"
         THEN IF GetRaises(r)
              THEN Raise(S1)
              ELSE IF r.message = MsgInvalidState
                   THEN log_results_simple(S1, "deleting", "deleting", test_type, "account_del",
                                           <<"could not delete account">>)
                   ELSE S1
         ELSE log_explicit_failure(S1, test_type, "account_del", <<"failed to delete account">>)

account_del(S, test_type, r) ==
    LET S1 == Run(S, "account del") IN
    IF ~RunRaises(r) /\ ~GetRaises(r)
    THEN log_results_simple(S1, "deleting", Get(r), test_type, "account_del",
                            <<"account state", Get(r)>>)
    ELSE IF r.exc = "CalledProcessError"
         THEN \* json.loads(e.stdout) and response.get run inside the handler
              IF GetRaises(r)
              THEN Raise(S1)
              ELSE IF r.message = MsgInvalidState
                   THEN log_results_simple(S1, "deleting", "enabled", test_type, "account_del",
                                           <<"could not delete account">>)
                   ELSE S1
         ELSE log_explicit_failure(S1, test_type, "account_del", <<"failed to delete account">>)

account_user_add(S, test_type, log, r) ==
    LET S1 == Run(S, "account user add") IN
    IF RunRaises(r) \/ GetRaises(r)
    THEN IF log
         THEN log_explicit_failure(S1, test_type, "account_user_add", <<"failed to add user">>)
         ELSE S1
    ELSE IF log
         THEN \* created and user: both fields present and non-empty
              IF Get(r) # "None"
              THEN log_results_simple(S1, "ok", "ok", "positive", "account_user_add",
                                      <<"user added">>)
              ELSE log_results_simple(S1, "ok", "notok", "positive", "account_user_add",
                                      <<"user not added">>)
         ELSE S1

\* context["user"] = acct["user"]; context["password"] = acct["passw"]
OverrideUser(S) == [S EXCEPT !.ctx.user = "nonadmin", !.ctx.password = "nonadmin"]

\* response == "Unauthorized" or response.get("httpcode") == 403, on e.stdout
UnauthorizedRaises(r) ==
    LoadsRaises(r) \/ (~(r.body = "string" /\ r.val = "Unauthorized") /\ GetRaises(r))

Unauthorized(r) ==
    (r.body = "string" /\ r.val = "Unauthorized") \/ r.httpcode = Forbidden

account_list(S, account_override, test_type, ha, hu, r) ==
    LET S0 == IF account_override
              THEN OverrideUser(account_user_add(account_add(S, "positive", FALSE, ha),
                                                 "positive", FALSE, hu))
              ELSE S
        S1 == Run(S0, "account list")
    IN
    IF ~RunRaises(r) /\ ~LoadsRaises(r)
    THEN log_results_simple(S1, "ok", "ok", test_type, "account_list", <<"accounts found">>)
    ELSE IF r.exc = "CalledProcessError"
         THEN IF LoadsRaises(r)
              THEN Raise(S1)
              ELSE IF account_override
                   THEN IF UnauthorizedRaises(r)
                        THEN Raise(S1)
                        ELSE IF Unauthorized(r)
                             THEN log_results_simple(S1, "ok", "notok", "negative", "account_list",
                                      <<"non-admin user could not list accounts">>)
                             ELSE log_explicit_failure(S1, test_type, "account_list",
                                      <<"failed to list accounts">>)
                   ELSE S1
         ELSE log_explicit_failure(S1, test_type, "account_list", <<"failed to list accounts">>)

\* case 1: default user list using admin
account_user_list_case1(S, test_type, r) ==
    LET S1 == Run(S, "account user list") IN
    IF RunRaises(r) \/ LoadsRaises(r)
    THEN log_explicit_failure(S1, test_type, "account_user_list", <<"failed list users w/admin">>)
    ELSE IF ~Falsy(r)
         THEN log_results_simple(S1, "ok", "ok", test_type, "account_user_list", <<"users found">>)
         ELSE log_results_simple(S1, "ok", "notok", "positive", "account_user_list",
                                 <<"no users found">>)

\* case 2: user list for an account without users
account_user_list_case2(S, test_type, ha, r) ==
    LET S1 == Run(account_add(S, "positive", FALSE, ha), "account user list --account") IN
    IF RunRaises(r) \/ LoadsRaises(r)
    THEN log_explicit_failure(S1, test_type, "account_user_list",
                              <<"failed to list users w/admin for account w/no users">>)
    ELSE IF Falsy(r)
         THEN log_results_simple(S1, "ok", "notok", "negative", "account_user_list",
                                 <<"no users found (good)">>)
         ELSE log_results_simple(S1, "ok", "notok", "positive", "account_user_list",
                                 <<"users found">>)

\* case 3: user list for an account with users
account_user_list_case3(S, test_type, ha, hu, r) ==
    LET S0 == account_user_add(account_add(S, "positive", FALSE, ha), "positive", FALSE, hu)
        S1 == Run(S0, "account user list --account")
    IN
    IF RunRaises(r) \/ LoadsRaises(r)
    THEN log_explicit_failure(S1, test_type, "account_user_list",
                              <<"failed to list users w/admin for account w/a user">>)
    ELSE IF ~Falsy(r)
         THEN log_results_simple(S1, "ok", "ok", "positive", "account_user_list", <<"users found">>)
         ELSE log_results_simple(S1, "ok", "notok", "positive", "account_user_list",
                                 <<"no users found">>)

\* case 4: user list using a non-admin user
account_user_list_case4(S, test_type, ha, hu, r) ==
    LET S0 == OverrideUser(account_user_add(account_add(S, "positive", FALSE, ha),
                                            "positive", FALSE, hu))
        S1 == Run(S0, "account user list --account")
    IN
    IF ~RunRaises(r) /\ ~LoadsRaises(r)
    THEN log_results_simple(S1, "ok", "ok", "negative", "account_user_list",
                            <<"users found - but should have thrown an exception">>)
    ELSE IF r.exc = "CalledProcessError"
         THEN IF UnauthorizedRaises(r)
              THEN Raise(S1)
              ELSE IF Unauthorized(r)
                   THEN log_results_simple(S1, "ok", "notok", "negative", "account_user_list",
                                           <<"Non-admin user could not list accounts (good)">>)
                   ELSE S1
         ELSE log_explicit_failure(S1, test_type, "account_user_list",
                                   <<"failed to list users w/a non admin user">>)

\* account_user_del, account_user_get, account_user_setpassword, account_whoami:
\* two set-up calls, then one command whose output is not read
WithNewUser(S, ha, hu) ==
    account_user_add(account_add(S, "positive", FALSE, ha), "positive", FALSE, hu)

account_user_del(S, test_type, ha, hu, r) ==
    LET S1 == Run(WithNewUser(S, ha, hu), "account user del") IN
    IF RunRaises(r)
    THEN log_explicit_failure(S1, test_type, "account_user_del", <<"failed to del user">>)
    ELSE log_results_simple(S1, "ok", "ok", "positive", "account_user_del", <<"user deleted">>)

account_user_get(S, test_type, ha, hu, r) ==
    LET S1 == Run(WithNewUser(S, ha, hu), "account user get") IN
    IF RunRaises(r)
    THEN log_explicit_failure(S1, test_type, "account_user_get", <<"failed to get user">>)
    ELSE log_results_simple(S1, "ok", "ok", "positive", "account_user_get", <<"got user">>)

account_user_setpassword(S, test_type, ha, hu, r) ==
    LET S1 == Run(WithNewUser(S, ha, hu), "account user setpassword") IN
    IF RunRaises(r)
    THEN log_explicit_failure(S1, test_type, "account_user_setpassword",
                              <<"failed to set password of user">>)
    ELSE log_results_simple(S1, "ok", "ok", "positive", "account_user_setpassword",
                            <<"set password of user">>)

account_whoami(S, test_type, ha, hu, r) ==
    LET S1 == Run(WithNewUser(S, ha, hu), "account whoami") IN
    IF RunRaises(r)
    THEN log_explicit_failure(S1, test_type, "account_whoami", <<"failed to call account whoami">>)
    ELSE log_results_simple(S1, "ok", "ok", "positive", "account_whoami",
                            <<"account whoami called successfully">>)

---------------------------------------------------------------------------
(* Image checks *)

\* Results of an invocation inside a loop of one try block: the handler only
\* tells a well-formed payload carrying the value from anything that raises.
LoopResults(vals) ==
    { Ok("object", v) : v \in vals } \cup
    { Ok("nonjson", "None"), Rejected(MsgOther, 404) }

\* "image wait <image>" ahead of a dependent command: TRUE when the check goes on
Waited(w) == ~RunRaises(w)

image_add(S, test_type, r) ==
    LET S1 == Run(S, "image add") IN
    IF RunRaises(r) \/ IndexRaises(r)
    THEN log_explicit_failure(S1, test_type, "image_add", <<"failed to add image">>)
    ELSE log_results_simple(S1, Index(r), "active", test_type, "image_add", <<"added image">>)

image_wait(S, test_type, w, r) ==
    LET S1 == Run(S, "image wait") IN
    IF ~Waited(w)
    THEN S1
    ELSE LET S2 == Run(S1, "image wait --timeout --interval") IN
         IF RunRaises(r) \/ IndexRaises(r)
         THEN S2
         ELSE log_results_simple(S2, "analyzed", Index(r), test_type, "image_wait",
                                 <<"waited for image">>)

\* one iteration of the loop of image_get
image_get(S, test_type, return_images, log, r) ==
    LET S1 == Run(S, "image get") IN
    IF RunRaises(r) \/ (return_images /\ LoadsRaises(r))
    THEN log_explicit_failure(S1, test_type, "image_get", <<"failed to get image">>)
    ELSE IF log
         THEN log_results_simple(S1, "ok", "ok", test_type, "image_get", <<"got image">>)
         ELSE S1

\* image_get(context, return_images=True, log=False) over config.test_images
RECURSIVE image_get_all(_, _)
image_get_all(S, gs) ==
    IF gs = <<>>
    THEN S
    ELSE image_get_all(image_get(S, "positive", TRUE, FALSE, Head(gs)), Tail(gs))

\* the images list image_get returns
Images(gs) == SelectSeq(gs, LAMBDA r : ~RunRaises(r) /\ ~LoadsRaises(r))

\* random.choice(images), then image_data[0]["image_detail"][0][...] raises
ImageDataRaises(gs, pick) ==
    \/ Images(gs) = <<>>
    \/ IndexRaises(Images(gs)[((pick - 1) % Len(Images(gs))) + 1])

image_content(S, test_type, content_type, w, r, subs) ==
    LET S1 == Run(S, "image wait") IN
    IF ~Waited(w)
    THEN S1
    ELSE LET S2 == Run(S1, "image content")
             \* the sub-commands run up to and including the first that raises
             bad == { i \in 1..Len(subs) : RunRaises(subs[i]) \/ GetRaises(subs[i])
                                             \/ Get(subs[i]) = "None" }
             ran == IF bad = {} THEN Len(subs)
                    ELSE CHOOSE i \in bad : \A j \in bad : i <= j
             S3 == [S2 EXCEPT !.cmds = @ \o [i \in 1..ran |->
                                              [user |-> S2.ctx.user, args |-> "image content <type>"]]]
         IN
         IF RunRaises(r) \/ LoadsRaises(r)
         THEN S2
         ELSE IF Falsy(r)
              THEN log_explicit_failure(S2, test_type, "image_content", <<"no content types for image">>)
              ELSE IF bad # {}
                   THEN S3
                   ELSE log_results_simple(S3, "ok", "ok", test_type, "image_content",
                                           <<"content type(s) tested successfully">>)

\* image_del classifying the latest-tag rejection of a non-forced delete as
\* a match ("ok" against "ok")
image_del_rejection_matches(S, force, test_type, w, r) ==
    LET S1 == Run(S, "image wait") IN
    IF ~Waited(w)
    THEN S1
    ELSE LET S2 == Run(S1, IF force THEN "image del --force" ELSE "image del") IN
         IF ~RunRaises(r) /\ ~GetRaises(r)
         THEN log_results_simple(S2, "deleting", Get(r), test_type, "image_del", <<"delete image">>)
         ELSE IF r.exc = "CalledProcessError"
              THEN IF GetRaises(r)
                   THEN Raise(S2)
                   ELSE IF r.message = MsgLatestTag
                        THEN IF force
                             THEN log_explicit_failure(S2, test_type, "image_del",
                                                       <<"could not delete image">>)
                             ELSE log_results_simple(S2, "ok", "ok", test_type, "image_del",
                                      <<"could not delete image without forcing (good)">>)
                        ELSE S2
              ELSE log_explicit_failure(S2, test_type, "image_del", <<"failed to delete image">>)

image_del(S, force, test_type, w, r) ==
    LET S1 == Run(S, "image wait") IN
    IF ~Waited(w)
    THEN S1
    ELSE LET S2 == Run(S1, IF force THEN "image del --force" ELSE "image del") IN
         IF ~RunRaises(r) /\ ~GetRaises(r)
         THEN log_results_simple(S2, "deleting", Get(r), test_type, "image_del", <<"delete image">>)
         ELSE IF r.exc = "CalledProcessError"
              THEN IF GetRaises(r)
                   THEN Raise(S2)
                   ELSE IF r.message = MsgLatestTag
                        THEN IF force
                             THEN log_explicit_failure(S2, test_type, "image_del",
                                                       <<"could not delete image">>)
                             ELSE log_results_simple(S2, "ok", "notok", test_type, "image_del",
                                      <<"could not delete image without forcing (good)">>)
                        ELSE S2
              ELSE log_explicit_failure(S2, test_type, "image_del", <<"failed to delete image">>)

image_list(S, test_type, r) ==
    LET S1 == Run(S, "image list") IN
    IF RunRaises(r) \/ LoadsRaises(r)
    THEN log_explicit_failure(S1, test_type, "image_list", <<"failed to list images">>)
    ELSE log_results_simple(S1, "ok", "ok", test_type, "image_list", <<"images found">>)

\* the loop of image_metadata from key k on; failed is the local flag
RECURSIVE image_metadata_keys(_, _, _, _, _, _)
image_metadata_keys(S, test_type, missing, subs, k, failed) ==
    IF k > Len(metadata_types)
    THEN IF failed
         THEN S
         ELSE log_results_simple(S, "ok", "ok", test_type, "image_metadata",
                                 <<"all expected metadata keys found">>)
    ELSE LET S1 == IF k \in missing
                   THEN log_explicit_failure(S, test_type, "image_metadata",
                                             <<"metadata type was not found">>)
                   ELSE S
             S2 == Run(S1, "image metadata <type>")
         IN
         IF RunRaises(subs[k]) \/ LoadsRaises(subs[k]) \/ subs[k].body # "object"
         THEN log_explicit_failure(S2, test_type, "image_metadata",
                                   <<"failed to get image metadata">>)
         ELSE IF subs[k].val # "match"
              THEN image_metadata_keys(
                       log_explicit_failure(S2, test_type, "image_metadata",
                                            <<"was not expected metadata type">>),
                       test_type, missing, subs, k + 1, TRUE)
              ELSE image_metadata_keys(S2, test_type, missing, subs, k + 1,
                                       failed \/ k \in missing)

image_metadata(S, test_type, w, r, missing, subs) ==
    LET S1 == Run(S, "image wait") IN
    IF ~Waited(w)
    THEN S1
    ELSE LET S2 == Run(S1, "image metadata") IN
         IF RunRaises(r) \/ LoadsRaises(r)
         THEN log_explicit_failure(S2, test_type, "image_metadata",
                                   <<"failed to get image metadata">>)
         ELSE image_metadata_keys(S2, test_type, missing, subs, 1, FALSE)

\* the loop of image_vuln from key k on
RECURSIVE image_vuln_keys(_, _, _, _, _)
image_vuln_keys(S, test_type, subs, k, failed) ==
    IF k > Len(vulnerability_types)
    THEN IF failed
         THEN S
         ELSE log_results_simple(S, "ok", "ok", test_type, "image_vuln",
                                 <<"all expected metadata keys found">>)
    ELSE LET S1 == Run(S, "image vuln <type>") IN
         \* len(response.get("vulnerabilities")) raises when the field is absent
         IF RunRaises(subs[k]) \/ GetRaises(subs[k]) \/ subs[k].body = "empty_object"
         THEN log_explicit_failure(S1, test_type, "image_vuln", <<"failed to get vuln data">>)
         ELSE IF subs[k].val # "match"
              THEN image_vuln_keys(
                       log_explicit_failure(S1, test_type, "image_vuln",
                                            <<"was not expected vuln type">>),
                       test_type, subs, k + 1, TRUE)
              ELSE image_vuln_keys(
                       log_results_simple(S1, "ok", "ok", test_type, "image_vuln",
                                          <<"found vuln of type">>),
                       test_type, subs, k + 1, failed)

\* image_vuln() filing the overall record whatever the loop found
image_vuln_unconditional_pass(S, test_type, w, subs) ==
    LET S1 == Run(S, "image wait") IN
    IF ~Waited(w)
    THEN S1
    ELSE log_results_simple(image_vuln_keys(S1, test_type, subs, 1, TRUE),
                            "ok", "ok", test_type, "image_vuln",
                            <<"all expected metadata keys found">>)

image_vuln(S, test_type, w, subs) ==
    LET S1 == Run(S, "image wait") IN
    IF ~Waited(w)
    THEN S1
    ELSE image_vuln_keys(S1, test_type, subs, 1, FALSE)

---------------------------------------------------------------------------
(* Analysis archive and evaluate checks *)

analysis_archive_images_add(S, test_type, gs, pick, w, r) ==
    LET S0 == image_get_all(S, gs) IN
    IF ImageDataRaises(gs, pick)
    THEN log_explicit_failure(S0, test_type, "analysis_archive_images_add", <<"error">>)
    ELSE LET S1 == Run(S0, "image wait") IN
         IF ~Waited(w)
         THEN S1
         ELSE LET S2 == Run(S1, "analysis-archive images add") IN
              IF RunRaises(r) \/ IndexRaises(r)
              THEN S2
              ELSE log_results_simple(S2, "archived", Index(r), test_type,
                                      "analysis_archive_images_add", <<"archived image">>)

analysis_archive_images_del(S, test_type, gs, pick, w, r) ==
    LET S0 == image_get_all(S, gs) IN
    IF ImageDataRaises(gs, pick)
    THEN log_explicit_failure(S0, test_type, "analysis_archive_images_del", <<"error">>)
    ELSE LET S1 == Run(S0, "image wait") IN
         IF ~Waited(w)
         THEN S1
         ELSE LET S2 == Run(S1, "analysis-archive images del") IN
              IF ~RunRaises(r) /\ ~LoadsRaises(r)
              THEN IF Falsy(r)
                   THEN log_results_simple(S2, "ok", "ok", test_type,
                            "analysis_archive_images_del", <<"deleted image from archive">>)
                   ELSE S2
              ELSE IF r.exc = "CalledProcessError"
                   THEN IF GetRaises(r)
                        THEN Raise(S2)
                        ELSE log_results_simple(S2, "ok", "ok", test_type,
                                 "analysis_archive_images_del",
                                 <<"Attempted to delete image from archive, but it was not in the archive">>)
                   ELSE S2

evaluate_check(S, test_type, w, r) ==
    LET S1 == Run(S, "image wait") IN
    IF ~Waited(w)
    THEN S1
    ELSE LET S2 == Run(S1, "evaluate check") IN
         IF RunRaises(r) \/ LoadsRaises(r)
         THEN S2
         ELSE IF Falsy(r)
              THEN log_explicit_failure(S2, test_type, "evaluate_check",
                                        <<"could not evaluate image">>)
              ELSE log_results_simple(S2, "ok", "ok", test_type, "evaluate_check",
                                      <<"evaluated image">>)

---------------------------------------------------------------------------
(* Repo, subscription, system and registry checks *)

\* bool(strtobool(stdout.decode("utf-8").rstrip())) raises
StrtoboolRaises(r) == r.body # "token" \/ r.val \notin {"true", "false"}

\* bool(strtobool(...))
Strtobool(r) == IF r.val = "true" THEN "True" ELSE "False"

\* Results of a command that prints a bare true/false token.
TokenResults ==
    { Ok("token", "true"), Ok("token", "false"), Ok("object", "None"), Ok("nonjson", "None") } \cup
    Failures

repo_add(S, test_type, r) ==
    LET S1 == Run(S, "repo add") IN
    IF RunRaises(r) \/ IndexRaises(r)
    THEN log_explicit_failure(S1, test_type, "repo_add", <<"failed to add repo">>)
    ELSE log_results_simple(S1, "ok", "ok", test_type, "repo_add", <<"added repo">>)

repo_del(S, test_type, r) ==
    LET S1 == Run(S, "repo del") IN
    IF RunRaises(r) \/ StrtoboolRaises(r)
    THEN log_explicit_failure(S1, test_type, "repo_del", <<"failed to del repo">>)
    ELSE log_results_simple(S1, "True", Strtobool(r), test_type, "repo_del", <<"repo deleted">>)

repo_get(S, test_type, r) ==
    LET S1 == Run(S, "repo get") IN
    IF RunRaises(r) \/ IndexRaises(r)
    THEN log_explicit_failure(S1, test_type, "repo_get", <<"failed to get repo">>)
    ELSE log_results_simple(S1, "ok", "ok", test_type, "repo_get", <<"repo status", Index(r)>>)

repo_list(S, test_type, r) ==
    LET S1 == Run(S, "repo list") IN
    IF RunRaises(r) \/ LoadsRaises(r)
    THEN log_explicit_failure(S1, test_type, "repo_list", <<"failed to list repos">>)
    ELSE log_results_simple(S1, "ok", "ok", test_type, "repo_list", <<"repos found">>)

repo_unwatch(S, test_type, r) ==
    LET S1 == Run(S, "repo unwatch") IN
    IF RunRaises(r) \/ IndexRaises(r)
    THEN log_explicit_failure(S1, test_type, "repo_unwatch", <<"failed to unwatch repo">>)
    ELSE log_results_simple(S1, "False", Index(r), test_type, "repo_unwatch", <<"repo unwatched">>)

repo_watch(S, test_type, r) ==
    LET S1 == Run(S, "repo watch") IN
    IF RunRaises(r) \/ IndexRaises(r)
    THEN log_explicit_failure(S1, test_type, "repo_watch", <<"failed to watch repo">>)
    ELSE log_results_simple(S1, "True", Index(r), test_type, "repo_watch", <<"repo watched">>)

\* subscription_get_one returns None: the call or the decode raised, or
\* random.choice raised on an empty list or on a dict
SubscriptionIsNone(h) == RunRaises(h) \/ LoadsRaises(h) \/ h.body \in {"object", "empty_object", "empty_array"}

\* sub["subscription_key"] raises: sub is None, or one character of a str
SubscriptionKeyRaises(h) == SubscriptionIsNone(h) \/ h.body # "array"

subscription_list(S, test_type, r) ==
    LET S1 == Run(S, "subscription list") IN
    IF RunRaises(r) \/ LoadsRaises(r)
    THEN log_explicit_failure(S1, test_type, "subscription_list", <<"failed to list subscriptions">>)
    ELSE log_results_simple(S1, "ok", "ok", test_type, "subscription_list",
                            <<"subscriptions found">>)

subscription_activate(S, test_type, h, r) ==
    LET S0 == Run(S, "subscription list") IN
    IF SubscriptionKeyRaises(h)
    THEN Raise(S0)
    ELSE LET S1 == Run(S0, "subscription activate") IN
         IF RunRaises(r) \/ IndexRaises(r)
         THEN log_explicit_failure(S1, test_type, "subscription_activate",
                                   <<"failed to activate subscription">>)
         ELSE log_results_simple(S1, "True", Index(r), test_type, "subscription_activate",
                                 <<"subscription should be active">>)

subscription_deactivate(S, test_type, h, r) ==
    LET S0 == Run(S, "subscription list") IN
    IF SubscriptionKeyRaises(h)
    THEN Raise(S0)
    ELSE LET S1 == Run(S0, "subscription deactivate") IN
         IF RunRaises(r) \/ IndexRaises(r)
         THEN log_explicit_failure(S1, test_type, "subscription_deactivate",
                                   <<"failed to deactivate subscription">>)
         ELSE log_results_simple(S1, "False", Index(r), test_type, "subscription_deactivate",
                                 <<"subscription should not be active">>)

system_status(S, test_type, r) ==
    LET S1 == Run(S, "system status") IN
    \* iterating response.get("service_states") raises when the field is absent
    IF RunRaises(r) \/ GetRaises(r) \/ Get(r) = "None"
    THEN log_explicit_failure(S1, test_type, "system_status", <<"failed to get system status">>)
    ELSE log_results_simple(S1, "ok", "ok", test_type, "system_status", <<"services found">>)

system_errorcodes(S, test_type, r) ==
    LET S1 == Run(S, "system errorcodes") IN
    \* code["name"] raises on the keys of a dict and the characters of a str
    IF RunRaises(r) \/ LoadsRaises(r) \/ r.body \in {"object", "string"}
    THEN log_explicit_failure(S1, test_type, "system_errorcodes",
                              <<"failed to get system error codes">>)
    ELSE log_results_simple(S1, "ok", "ok", test_type, "system_errorcodes",
                            <<"error codes found">>)

system_wait(S, log, r) ==
    LET S1 == Run(S, "system wait --timeout --interval") IN
    IF RunRaises(r)
    THEN S1
    ELSE IF log
         THEN log_results_simple(S1, "ok", "ok", "positive", "system_wait", <<"waited for system">>)
         ELSE S1

registry_add(S, r) ==
    LET S1 == Run(S, "registry add") IN
    IF ~RunRaises(r) /\ ~IndexRaises(r)
    THEN log_results_simple(S1, "ok", "ok", "positive", "registry_add", <<"added registry">>)
    ELSE IF r.exc = "CalledProcessError"
         THEN IF GetRaises(r)
              THEN Raise(S1)
              ELSE IF r.message = MsgRegistryExists
                   THEN log_results_simple(S1, "ok", "notok", "negative", "registry_add",
                                           <<"registry already exists">>)
                   ELSE \* test_type is not a name of this function: NameError
                        Raise(S1)
         ELSE S1

registry_get(S, test_type, r) ==
    LET S1 == Run(S, "registry get") IN
    IF RunRaises(r) \/ IndexRaises(r)
    THEN log_explicit_failure(S1, test_type, "registry_get", <<"failed to get registry">>)
    ELSE log_results_simple(S1, "ok", "ok", "positive", "registry_get", <<"got registry">>)

registry_list(S, test_type, r) ==
    LET S1 == Run(S, "registry list") IN
    \* reg["registry"] raises on the keys of a dict and the characters of a str
    IF RunRaises(r) \/ LoadsRaises(r) \/ r.body \in {"object", "string"}
    THEN log_explicit_failure(S1, test_type, "registry_list", <<"failed to list registries">>)
    ELSE log_results_simple(S1, "ok", "ok", "positive", "registry_list", <<"Found registries">>)

registry_del(S, test_type, r) ==
    LET S1 == Run(S, "registry del") IN
    IF RunRaises(r) \/ StrtoboolRaises(r)
    THEN log_explicit_failure(S1, test_type, "registry_del", <<"failed to del registry">>)
    ELSE log_results_simple(S1, "True", Strtobool(r), test_type, "registry_del",
                            <<"registry deleted">>)

\* log_results_summary with the negative-pass section iterating over
\* positive_tests["pass"]
SummaryLines_copied_loop(pos, neg) ==
    (IF pos.pass # <<>> THEN <<<<"Positive Tests Passed">>>> \o pos.pass ELSE <<>>) \o
    (IF pos.fail # <<>> THEN <<<<"Positive Tests Failed">>>> \o pos.fail ELSE <<>>) \o
    (IF neg.pass # <<>> THEN <<<<"Negative Tests Passed">>>> \o pos.pass ELSE <<>>) \o
    (IF neg.fail # <<>> THEN <<<<"Negative Tests Failed">>>> \o neg.fail ELSE <<>>)

\* log_results_summary: the lines logged, the four counts, and the exit status
SummaryLines(pos, neg) ==
    (IF pos.pass # <<>> THEN <<<<"Positive Tests Passed">>>> \o pos.pass ELSE <<>>) \o
    (IF pos.fail # <<>> THEN <<<<"Positive Tests Failed">>>> \o pos.fail ELSE <<>>) \o
    (IF neg.pass # <<>> THEN <<<<"Negative Tests Passed">>>> \o neg.pass ELSE <<>>) \o
    (IF neg.fail # <<>> THEN <<<<"Negative Tests Failed">>>> \o neg.fail ELSE <<>>)

SummaryCounts(pos, neg) == <<Len(pos.pass), Len(pos.fail), Len(neg.pass), Len(neg.fail)>>

\* log_results_summary emptying the buckets it has reported
SummaryLedger_drained(pos, neg) == [pos |-> [pass |-> <<>>, fail |-> <<>>],
                                    neg |-> [pass |-> <<>>, fail |-> <<>>]]

\* the ledger log_results_summary leaves: it reads the buckets (truth tests,
\* for loops, len) and assigns to none
SummaryLedger(pos, neg) == [pos |-> pos, neg |-> neg]

SummaryExit(pos, neg) ==
    IF Len(pos.fail) > 0 THEN 1
    ELSE IF Len(neg.fail) > 0 THEN 1
    ELSE 0

---------------------------------------------------------------------------
(* The driver: the calls each command group makes, in order *)

\* One call of a check.  reset: the caller hands over a fresh
\* copy.deepcopy(root_context) instead of the dict the previous call used.
Site(fn, test_type, opt, reset) ==
    [fn |-> fn, test_type |-> test_type, opt |-> opt, reset |-> reset]

Call(fn) == Site(fn, "positive", "", FALSE)

Repeat(n, site) == [i \in 1..n |-> site]

\* account() deleting the account before it disables it again
account_delete_before_disable ==
    << Call("account_add"),
       Call("account_get"),
       Call("account_disable"),
       Call("account_enable"),
       Site("account_del", "negative", "", FALSE),
       Call("account_del"),
       Call("account_disable"),
       Call("account_list"),
       Site("account_list", "negative", "account_override", FALSE),
       Site("account_user_list_case1", "positive", "", TRUE),
       Call("account_user_list_case2"),
       Call("account_user_list_case3"),
       Call("account_user_list_case4"),
       Site("account_add", "positive", "", TRUE),
       Call("account_user_add"),
       Call("account_user_del"),
       Call("account_user_get"),
       Call("account_user_setpassword"),
       Site("account_whoami", "positive", "", TRUE) >>

account ==
    << Call("account_add"),
       Call("account_get"),
       Call("account_disable"),
       Call("account_enable"),
       Site("account_del", "negative", "", FALSE),
       Call("account_disable"),
       Call("account_del"),
       Call("account_list"),
       Site("account_list", "negative", "account_override", FALSE),
       \* account_user, on a fresh context
       Site("account_user_list_case1", "positive", "", TRUE),
       Call("account_user_list_case2"),
       Call("account_user_list_case3"),
       Call("account_user_list_case4"),
       Site("account_add", "positive", "", TRUE),
       Call("account_user_add"),
       Call("account_user_del"),
       Call("account_user_get"),
       Call("account_user_setpassword"),
       Site("account_whoami", "positive", "", TRUE) >>

image ==
    Repeat(NumTestImages + Len(malware_images) + Len(clean_images), Call("image_add")) \o
    << Call("image_wait") >> \o
    Repeat(NumTestImages, Call("image_get")) \o
    << Site("image_content", "positive", "all", FALSE),
       Site("image_content", "positive", "malware", FALSE),
       Call("image_metadata"),
       Call("image_list"),
       Call("image_vuln") >>

analysis_archive ==
    << Call("analysis_archive_images_add"), Call("analysis_archive_images_del") >>

image_deletion ==
    << Site("image_del", "negative", "", FALSE), Site("image_del", "positive", "force", FALSE) >>

evaluate == << Call("evaluate_check") >>

repo ==
    Repeat(Len(repositories), Call("repo_add")) \o
    << Call("repo_list") >> \o
    Repeat(Len(repositories), Call("repo_get")) \o
    << Call("repo_unwatch"), Call("repo_watch"), Call("repo_del") >>

event == << Call("event") >>

policy == << Call("policy") >>

subscription ==
    << Call("subscription_list"), Call("subscription_activate"), Call("subscription_deactivate") >>

system == << Call("system_status"), Call("system_errorcodes") >>

registry(env) ==
    IF ~env
    THEN <<>>
    ELSE << Call("registry_add"), Site("registry_add", "positive", "again", FALSE),
            Call("registry_list"),
            Call("registry_get"), Call("registry_del") >>

Groups ==
    { "account", "image", "analysis_archive", "image_deletion", "evaluate", "repo",
      "event", "policy", "subscription", "system", "registry" }

\* the dispatch resolving image_deletion to image
Group_first_match(name, env) ==
    CASE name = "account" -> account
      [] name \in {"image", "image_deletion"} -> image
      [] name = "analysis_archive" -> analysis_archive
      [] name = "evaluate" -> evaluate
      [] name = "repo" -> repo
      [] name = "event" -> event
      [] name = "policy" -> policy
      [] name = "subscription" -> subscription
      [] name = "system" -> system
      [] name = "registry" -> registry(env)

Group(name, env) ==
    CASE name = "account" -> account
      [] name = "image" -> image
      [] name = "analysis_archive" -> analysis_archive
      [] name = "image_deletion" -> image_deletion
      [] name = "evaluate" -> evaluate
      [] name = "repo" -> repo
      [] name = "event" -> event
      [] name = "policy" -> policy
      [] name = "subscription" -> subscription
      [] name = "system" -> system
      [] name = "registry" -> registry(env)

\* context = copy.deepcopy(root_context) after account(context)
Fresh(prog) == IF prog = <<>> THEN prog ELSE [prog EXCEPT ![1].reset = TRUE]

\* run_cli_driver calling image_deletion before analysis_archive
AllGroups_swapped(env) ==
    account \o Fresh(image) \o image_deletion \o analysis_archive \o evaluate \o repo \o
    event \o policy \o subscription \o system \o registry(env)

AllGroups(env) ==
    account \o Fresh(image) \o analysis_archive \o image_deletion \o evaluate \o repo \o
    event \o policy \o subscription \o system \o registry(env)

\* the calls run_cli_driver makes for a command
Program ==
    [cmd \in Groups \cup {"all"}, env \in BOOLEAN |->
        IF cmd = "all" THEN AllGroups(env) ELSE Group(cmd, env)]

Prog == Program[command, registry_env]

---------------------------------------------------------------------------
(* State machine *)

AdminContext == [user |-> "admin", password |-> "admin", api_url |-> "url"]

EmptyLedger == [pass |-> <<>>, fail |-> <<>>]

\* What a step leaves in last: the call made (fn, test_type, opt, and for a
\* direct call of the classifier desired, state and the record it formats),
\* the tool results it saw (wait, op, helpers_ok), the commands it ran,
\* whether it raised, and the ledger and call count it started from.  A call
\* of log_results_summary also leaves the step made before it (prev) and the
\* summary logged before it (summary).  A feed check leaves the listing it
\* fetched and the value of its enable parameter (feeds, enable).  A wait
\* called with its arguments
\* spelled out leaves the timeout and the interval it was given and the time
\* it took (timeout, interval, elapsed).
NoSummary == [lines |-> <<>>, counts |-> <<>>]

NoStep ==
    [fn |-> "", test_type |-> "", opt |-> "", desired |-> "", state |-> "", record |-> <<>>,
     wait |-> NotRun, op |-> NotRun, helpers_ok |-> TRUE, cmds |-> <<>>, raised |-> FALSE,
     pos |-> EmptyLedger, neg |-> EmptyLedger, calls |-> 0, prev |-> "",
     summary |-> NoSummary, timeout |-> 0, interval |-> 0, elapsed |-> 0,
     feeds |-> <<>>, enable |-> FALSE]

Init ==
    /\ positive_tests = EmptyLedger
    /\ negative_tests = EmptyLedger
    /\ root_context = [user |-> "", password |-> "", api_url |-> ""]
    /\ context = [user |-> "", password |-> "", api_url |-> ""]
    /\ command \in Groups \cup {"all"}
    /\ registry_env \in BOOLEAN
    /\ pc = 0
    /\ status = "start"
    /\ exit_code = -1
    /\ summary = NoSummary
    /\ calls = 0
    /\ faulty = 0
    /\ running = {}
    /\ last = NoStep

\* run_cli_driver up to the dispatch: root_context, the first context, system_wait
run_cli_driver ==
    /\ status = "start"
    /\ \E r \in WaitResults :
         LET S == system_wait(Frame(positive_tests, negative_tests, calls, AdminContext), FALSE, r) IN
         /\ root_context' = AdminContext
         /\ context' = S.ctx
         /\ positive_tests' = S.pos
         /\ negative_tests' = S.neg
         /\ calls' = S.calls
         /\ last' = [NoStep EXCEPT !.fn = "system_wait", !.op = r, !.cmds = S.cmds,
                                   !.pos = positive_tests, !.neg = negative_tests, !.calls = calls]
    /\ status' = "running"
    /\ pc' = 1
    /\ UNCHANGED <<command, registry_env, exit_code, summary, faulty, running>>

At(fn) == status = "running" /\ pc <= Len(Prog) /\ Prog[pc].fn = fn

Cur == Prog[pc]

\* the frame the current call starts from
\* the call sites passing the context on without rebinding it to a copy of
\* root_context
Enter_without_copy ==
    Frame(positive_tests, negative_tests, calls, context)

Enter ==
    Frame(positive_tests, negative_tests, calls, IF Cur.reset THEN root_context ELSE context)

\* The call returned frame S, or raised.  An exception that leaves a check
\* leaves the group function and run_cli_driver too: the interpreter prints
\* the traceback and exits with status 1.
Commit(S, dev, wait, op, helpers_ok) ==
    /\ faulty + (IF dev THEN 1 ELSE 0) <= MaxFaultyChecks
    /\ faulty' = faulty + (IF dev THEN 1 ELSE 0)
    /\ positive_tests' = S.pos
    /\ negative_tests' = S.neg
    /\ calls' = S.calls
    /\ context' = S.ctx
    /\ last' = [NoStep EXCEPT !.fn = Cur.fn, !.test_type = Cur.test_type, !.opt = Cur.opt,
                              !.wait = wait, !.op = op, !.helpers_ok = helpers_ok,
                              !.cmds = S.cmds, !.raised = S.exc, !.pos = positive_tests,
                              !.neg = negative_tests, !.calls = calls]
    /\ IF S.exc
       THEN status' = "crashed" /\ exit_code' = 1 /\ pc' = pc
       ELSE status' = status /\ exit_code' = exit_code /\ pc' = pc + 1
    /\ UNCHANGED <<root_context, command, registry_env, summary, running>>

\* The results a call may see: any of them while the run may still meet a
\* faulty check, the nominal one afterwards.
In(set, nominal) == IF faulty < MaxFaultyChecks THEN set ELSE {nominal}

\* a check that makes one invocation
One(fn, F(_, _, _), vals, nominal) ==
    /\ At(fn)
    /\ \E r \in In(Results(vals), nominal) :
         Commit(F(Enter, Cur.test_type, r), r # nominal, NotRun, r, TRUE)

HelperOk == Ok("object", "enabled")

\* a check that makes two set-up calls and one invocation
WithHelpers(fn, F(_, _, _, _, _), vals, nominal) ==
    /\ At(fn)
    /\ \E ha \in In(HelperResults, HelperOk), hu \in In(HelperResults, HelperOk),
          r \in In(Results(vals), nominal) :
         Commit(F(Enter, Cur.test_type, ha, hu, r),
                r # nominal \/ ha # HelperOk \/ hu # HelperOk, NotRun, r,
                ~RunRaises(ha) /\ ~RunRaises(hu))

WaitOk == Ok("array", "analyzed")

\* a check that waits for its image and makes one invocation
Waiting(fn, F(_, _, _, _), vals, nominal) ==
    /\ At(fn)
    /\ \E w \in In(WaitResults, WaitOk) :
         \E r \in (IF Waited(w) THEN In(Results(vals), nominal) ELSE {nominal}) :
            Commit(F(Enter, Cur.test_type, w, r), r # nominal \/ w # WaitOk,
                   w, IF Waited(w) THEN r ELSE NotRun, TRUE)

call_account_add ==
    One("account_add", LAMBDA S, t, r : account_add(S, t, TRUE, r),
        {"enabled", "disabled"}, Ok("object", "enabled"))

call_account_get ==
    One("account_get", account_get, {"enabled", "disabled"}, Ok("object", "enabled"))

call_account_disable ==
    One("account_disable", account_disable, {"enabled", "disabled"}, Ok("object", "disabled"))

call_account_enable ==
    One("account_enable", account_enable, {"enabled", "disabled"}, Ok("object", "enabled"))

call_account_del ==
    One("account_del", account_del, {"deleting", "enabled"},
        IF Cur.test_type = "negative" THEN Rejected(MsgInvalidState, 400)
        ELSE Ok("object", "deleting"))

call_account_list ==
    /\ At("account_list")
    /\ LET override == Cur.opt = "account_override"
           nominal == IF override THEN Rejected(MsgOther, Forbidden) ELSE Ok("array", "accounts")
           helpers == IF override THEN In(HelperResults, HelperOk) ELSE {HelperOk}
       IN
       \E ha \in helpers, hu \in helpers, r \in In(Results({"accounts"}), nominal) :
          Commit(account_list(Enter, override, Cur.test_type, ha, hu, r),
                 r # nominal \/ ha # HelperOk \/ hu # HelperOk, NotRun, r,
                 ~RunRaises(ha) /\ ~RunRaises(hu))

call_account_user_list_case1 ==
    One("account_user_list_case1", account_user_list_case1, {"users"}, Ok("array", "users"))

call_account_user_list_case2 ==
    /\ At("account_user_list_case2")
    /\ \E ha \in In(HelperResults, HelperOk),
          r \in In(Results({"users"}), Ok("empty_array", "None")) :
         Commit(account_user_list_case2(Enter, Cur.test_type, ha, r),
                r # Ok("empty_array", "None") \/ ha # HelperOk, NotRun, r, ~RunRaises(ha))

call_account_user_list_case3 ==
    WithHelpers("account_user_list_case3", account_user_list_case3, {"users"},
                Ok("array", "users"))

call_account_user_list_case4 ==
    WithHelpers("account_user_list_case4", account_user_list_case4, {"users"},
                Rejected(MsgOther, Forbidden))

call_account_user_add ==
    One("account_user_add", LAMBDA S, t, r : account_user_add(S, t, TRUE, r),
        {"user", "None"}, Ok("object", "user"))

call_account_user_del ==
    WithHelpers("account_user_del", account_user_del, {"user"}, Ok("object", "user"))

call_account_user_get ==
    WithHelpers("account_user_get", account_user_get, {"user"}, Ok("object", "user"))

call_account_user_setpassword ==
    WithHelpers("account_user_setpassword", account_user_setpassword, {"user"},
                Ok("object", "user"))

call_account_whoami ==
    WithHelpers("account_whoami", account_whoami, {"user"}, Ok("object", "user"))

SeqsOf(set, lo, hi) == UNION { [1..n -> set] : n \in lo..hi }

call_image_add ==
    One("image_add", image_add, {"active", "deleted"}, Ok("array", "active"))

call_image_wait ==
    Waiting("image_wait", image_wait, {"analyzed", "analyzing"}, Ok("array", "analyzed"))

call_image_get ==
    One("image_get", LAMBDA S, t, r : image_get(S, t, FALSE, TRUE, r),
        {"image"}, Ok("array", "image"))

ContentResults == LoopResults({"content", "None"})

call_image_content ==
    /\ At("image_content")
    /\ LET nominal == <<Ok("object", "content")>>
           types == Ok("array", "types")
           reached(w, r) == Waited(w) /\ ~RunRaises(r) /\ ~LoadsRaises(r) /\ ~Falsy(r)
           all == SeqsOf(ContentResults, IF Cur.opt = "all" THEN 1 ELSE 0,
                         IF Cur.opt = "all" THEN MaxContentTypes ELSE 1)
       IN
       \E w \in In(WaitResults, WaitOk) :
          \E r \in (IF Waited(w) THEN In(Results({"types"}), types) ELSE {types}) :
             \E subs \in (IF reached(w, r) THEN In(all, nominal) ELSE {nominal}) :
                Commit(image_content(Enter, Cur.test_type, Cur.opt, w, r, subs),
                       w # WaitOk \/ r # types \/ subs # nominal,
                       w, IF Waited(w) THEN r ELSE NotRun, TRUE)

call_image_del ==
    Waiting("image_del", LAMBDA S, t, w, r : image_del(S, Cur.opt = "force", t, w, r),
            {"deleting", "active"},
            IF Cur.opt = "force" THEN Ok("object", "deleting") ELSE Rejected(MsgLatestTag, 400))

call_image_list ==
    One("image_list", image_list, {"images"}, Ok("array", "images"))

MetadataResults ==
    { Ok("object", "metadata"), Ok("empty_object", "None"), Ok("nonjson", "None"),
      Rejected(MsgOther, 404) }

KeyResults == { Ok("object", "match"), Ok("object", "other"), Ok("empty_object", "None") }

call_image_metadata ==
    /\ At("image_metadata")
    /\ LET keys == 1..Len(metadata_types)
           nominal == [k \in keys |-> Ok("object", "match")]
           metadata == Ok("object", "metadata")
           reached(w, r) == Waited(w) /\ ~RunRaises(r) /\ ~LoadsRaises(r)
       IN
       \E w \in In(WaitResults, WaitOk) :
          \E r \in (IF Waited(w) THEN In(MetadataResults, metadata) ELSE {metadata}) :
             \E missing \in (IF ~reached(w, r) THEN {{}}
                              ELSE IF Falsy(r) THEN {keys}
                              ELSE In(SUBSET keys, {})),
                subs \in (IF reached(w, r) THEN In([keys -> KeyResults], nominal)
                          ELSE {nominal}) :
                Commit(image_metadata(Enter, Cur.test_type, w, r, missing, subs),
                       w # WaitOk \/ r # metadata \/ missing # {} \/ subs # nominal,
                       w, IF Waited(w) THEN r ELSE NotRun, TRUE)

call_image_vuln ==
    /\ At("image_vuln")
    /\ LET keys == 1..Len(vulnerability_types)
           nominal == [k \in keys |-> Ok("object", "match")]
       IN
       \E w \in In(WaitResults, WaitOk) :
          \E subs \in (IF Waited(w) THEN In([keys -> KeyResults], nominal) ELSE {nominal}) :
             Commit(image_vuln(Enter, Cur.test_type, w, subs),
                    w # WaitOk \/ subs # nominal,
                    w, NotRun, TRUE)

ImageGetResults ==
    { Ok("array", "image"), Ok("object", "image"), Ok("nonjson", "None"), Rejected(MsgOther, 404) }

\* a check that picks its image with random_image_data, waits for it and
\* makes one invocation
Archive(fn, F(_, _, _, _, _, _), vals, nominal) ==
    /\ At(fn)
    /\ LET allOk == [i \in 1..NumTestImages |-> Ok("array", "image")] IN
       \E gs \in In([1..NumTestImages -> ImageGetResults], allOk) :
          \E pick \in (IF Len(Images(gs)) <= 1 THEN {1} ELSE 1..Len(Images(gs))) :
             \E w \in (IF ImageDataRaises(gs, pick) THEN {WaitOk} ELSE In(WaitResults, WaitOk)) :
                \E r \in (IF ImageDataRaises(gs, pick) \/ ~Waited(w) THEN {nominal}
                          ELSE In(Results(vals), nominal)) :
                   Commit(F(Enter, Cur.test_type, gs, pick, w, r),
                          gs # allOk \/ w # WaitOk \/ r # nominal,
                          IF ImageDataRaises(gs, pick) THEN NotRun ELSE w,
                          IF ImageDataRaises(gs, pick) \/ ~Waited(w) THEN NotRun ELSE r,
                          \A i \in 1..Len(gs) : ~RunRaises(gs[i]) /\ ~LoadsRaises(gs[i]))

call_analysis_archive_images_add ==
    Archive("analysis_archive_images_add", analysis_archive_images_add,
            {"archived", "archiving"}, Ok("array", "archived"))

call_analysis_archive_images_del ==
    Archive("analysis_archive_images_del", analysis_archive_images_del,
            {"deleted"}, Ok("empty_array", "None"))

call_evaluate_check ==
    Waiting("evaluate_check", evaluate_check, {"evaluation"}, Ok("array", "evaluation"))

call_repo_add == One("repo_add", repo_add, {"True", "False"}, Ok("array", "True"))

call_repo_list == One("repo_list", repo_list, {"repos"}, Ok("array", "repos"))

call_repo_get == One("repo_get", repo_get, {"True", "False"}, Ok("array", "True"))

call_repo_unwatch == One("repo_unwatch", repo_unwatch, {"True", "False"}, Ok("array", "False"))

call_repo_watch == One("repo_watch", repo_watch, {"True", "False"}, Ok("array", "True"))

call_repo_del ==
    /\ At("repo_del")
    /\ \E r \in In(TokenResults, Ok("token", "true")) :
         Commit(repo_del(Enter, Cur.test_type, r), r # Ok("token", "true"), NotRun, r, TRUE)

\* event() and policy() call functions whose body is pass
call_event == At("event") /\ Commit(Enter, FALSE, NotRun, NotRun, TRUE)

call_policy == At("policy") /\ Commit(Enter, FALSE, NotRun, NotRun, TRUE)

call_subscription_list ==
    One("subscription_list", subscription_list, {"subscriptions"}, Ok("array", "subscriptions"))

\* a check that first fetches one subscription with subscription_get_one
Subscribed(fn, F(_, _, _, _), nominal) ==
    /\ At(fn)
    /\ \E h \in In(Results({"subscriptions"}), Ok("array", "subscriptions")) :
         \E r \in (IF SubscriptionKeyRaises(h) THEN {nominal}
                   ELSE In(Results({"True", "False"}), nominal)) :
            Commit(F(Enter, Cur.test_type, h, r),
                   h # Ok("array", "subscriptions") \/ r # nominal,
                   NotRun, IF SubscriptionKeyRaises(h) THEN NotRun ELSE r,
                   ~SubscriptionKeyRaises(h))

call_subscription_activate ==
    Subscribed("subscription_activate", subscription_activate, Ok("array", "True"))

call_subscription_deactivate ==
    Subscribed("subscription_deactivate", subscription_deactivate, Ok("array", "False"))

call_system_status ==
    One("system_status", system_status, {"services"}, Ok("object", "services"))

call_system_errorcodes ==
    One("system_errorcodes", system_errorcodes, {"codes"}, Ok("array", "codes"))

call_registry_add ==
    One("registry_add", LAMBDA S, t, r : registry_add(S, r), {"registry"},
        IF Cur.opt = "again" THEN Rejected(MsgRegistryExists, 400) ELSE Ok("array", "registry"))

call_registry_list ==
    One("registry_list", registry_list, {"registries"}, Ok("array", "registries"))

call_registry_get ==
    One("registry_get", registry_get, {"registry"}, Ok("array", "registry"))

call_registry_del ==
    /\ At("registry_del")
    /\ \E r \in In(TokenResults, Ok("token", "true")) :
         Commit(registry_del(Enter, Cur.test_type, r), r # Ok("token", "true"), NotRun, r, TRUE)

\* run_cli_driver after the last call: log_results_summary, then the process ends
log_results_summary ==
    /\ status = "running"
    /\ pc > Len(Prog)
    /\ summary' = [lines |-> SummaryLines(positive_tests, negative_tests),
                   counts |-> SummaryCounts(positive_tests, negative_tests)]
    /\ exit_code' = SummaryExit(positive_tests, negative_tests)
    /\ status' = "exited"
    /\ positive_tests' = SummaryLedger(positive_tests, negative_tests).pos
    /\ negative_tests' = SummaryLedger(positive_tests, negative_tests).neg
    /\ last' = [NoStep EXCEPT !.fn = "log_results_summary", !.pos = positive_tests,
                              !.neg = negative_tests, !.calls = calls,
                              !.prev = last.fn, !.summary = summary]
    /\ UNCHANGED <<root_context, context, command, registry_env, pc, calls, faulty, running>>

Next ==
    \/ run_cli_driver
    \/ call_account_add
    \/ call_account_get
    \/ call_account_disable
    \/ call_account_enable
    \/ call_account_del
    \/ call_account_list
    \/ call_account_user_list_case1
    \/ call_account_user_list_case2
    \/ call_account_user_list_case3
    \/ call_account_user_list_case4
    \/ call_account_user_add
    \/ call_account_user_del
    \/ call_account_user_get
    \/ call_account_user_setpassword
    \/ call_account_whoami
    \/ call_image_add
    \/ call_image_wait
    \/ call_image_get
    \/ call_image_content
    \/ call_image_del
    \/ call_image_list
    \/ call_image_metadata
    \/ call_image_vuln
    \/ call_analysis_archive_images_add
    \/ call_analysis_archive_images_del
    \/ call_evaluate_check
    \/ call_repo_add
    \/ call_repo_list
    \/ call_repo_get
    \/ call_repo_unwatch
    \/ call_repo_watch
    \/ call_repo_del
    \/ call_event
    \/ call_policy
    \/ call_subscription_list
    \/ call_subscription_activate
    \/ call_subscription_deactivate
    \/ call_system_status
    \/ call_system_errorcodes
    \/ call_registry_add
    \/ call_registry_list
    \/ call_registry_get
    \/ call_registry_del
    \/ log_results_summary

Spec == Init /\ [][Next]_vars

---------------------------------------------------------------------------
(* The classifier on its own: log_results_simple and log_explicit_failure   *)
(* applied to every desired state, actual state and polarity, on a ledger   *)
(* of up to MaxRecords records.                                             *)

States == {"enabled", "disabled", "deleting"}

Polarities == {"positive", "negative"}

Actions == {"account_get", "account_del"}

InitLedger ==
    /\ positive_tests = EmptyLedger
    /\ negative_tests = EmptyLedger
    /\ root_context = AdminContext
    /\ context = AdminContext
    /\ command = "all"
    /\ registry_env = FALSE
    /\ pc = 0
    /\ status = "classify"
    /\ exit_code = -1
    /\ summary = NoSummary
    /\ calls = 0
    /\ faulty = 0
    /\ running = {}
    /\ last = NoStep

\* the ledger after a direct call of the classifier
Classified(S, fn, desired, state, test_type, record) ==
    /\ positive_tests' = S.pos
    /\ negative_tests' = S.neg
    /\ calls' = S.calls
    /\ last' = [NoStep EXCEPT !.fn = fn, !.desired = desired, !.state = state,
                              !.test_type = test_type, !.record = record,
                              !.pos = positive_tests, !.neg = negative_tests, !.calls = calls]
    /\ UNCHANGED <<root_context, context, command, registry_env, pc, status, exit_code,
                   summary, faulty, running>>

call_log_results_simple ==
    /\ status = "classify"
    /\ calls < MaxRecords
    /\ \E desired \in States, state \in States, test_type \in Polarities, action \in Actions :
         Classified(log_results_simple(Frame(positive_tests, negative_tests, calls, context),
                                       desired, state, test_type, action, <<"state", state>>),
                    "log_results_simple", desired, state, test_type,
                    Format(action, <<"state", state>>))

call_log_explicit_failure ==
    /\ status = "classify"
    /\ calls < MaxRecords
    /\ \E test_type \in Polarities, action \in Actions :
         Classified(log_explicit_failure(Frame(positive_tests, negative_tests, calls, context),
                                         test_type, action, <<"failed">>),
                    "log_explicit_failure", "", "", test_type, Format(action, <<"failed">>))

\* a direct call of log_results_summary: it returns when both fail buckets
\* are empty and ends the process with status 1 otherwise
call_log_results_summary ==
    /\ status = "classify"
    /\ summary' = [lines |-> SummaryLines(positive_tests, negative_tests),
                   counts |-> SummaryCounts(positive_tests, negative_tests)]
    /\ positive_tests' = SummaryLedger(positive_tests, negative_tests).pos
    /\ negative_tests' = SummaryLedger(positive_tests, negative_tests).neg
    /\ IF SummaryExit(positive_tests, negative_tests) = 0
       THEN UNCHANGED <<status, exit_code>>
       ELSE status' = "exited" /\ exit_code' = SummaryExit(positive_tests, negative_tests)
    /\ last' = [NoStep EXCEPT !.fn = "log_results_summary", !.pos = positive_tests,
                              !.neg = negative_tests, !.calls = calls,
                              !.prev = last.fn, !.summary = summary]
    /\ UNCHANGED <<root_context, context, command, registry_env, pc, calls, faulty, running>>

NextLedger ==
    \/ call_log_results_simple
    \/ call_log_explicit_failure
    \/ call_log_results_summary

SpecLedger == InitLedger /\ [][NextLedger]_vars

---------------------------------------------------------------------------
(* One invocation at a time: every check hands its command to               *)
(* subprocess.run, which starts the child process and returns, or raises,   *)
(* once the child has exited.  The harness starts no thread, so the caller  *)
(* is the only execution context; pc counts the invocations it has made.    *)

\* Invocations followed by the invoker specification.
MaxInvocations == 6

InitInvoker ==
    /\ positive_tests = EmptyLedger
    /\ negative_tests = EmptyLedger
    /\ root_context = AdminContext
    /\ context = AdminContext
    /\ command = "all"
    /\ registry_env = FALSE
    /\ pc = 0
    /\ status = "calling"
    /\ exit_code = -1
    /\ summary = NoSummary
    /\ calls = 0
    /\ faulty = 0
    /\ running = {}
    /\ last = NoStep

\* subprocess.Popen: the caller goes on while the child runs
AfterStart_popen(caller) == caller

\* where the caller is once subprocess.run has started the child: inside
\* the call, waiting for the child to exit
AfterStart(caller) == "waiting"

\* the caller reaches a subprocess.run and the child process starts
subprocess_run_start ==
    /\ status = "calling"
    /\ pc < MaxInvocations
    /\ running' = running \cup {pc + 1}
    /\ pc' = pc + 1
    /\ status' = AfterStart(status)
    /\ UNCHANGED <<positive_tests, negative_tests, root_context, context, command,
                   registry_env, exit_code, summary, calls, faulty, last>>

\* the child exits and subprocess.run returns its output or raises
subprocess_run_return ==
    /\ status = "waiting"
    /\ \E r \in Results({"enabled"}) :
         last' = [NoStep EXCEPT !.fn = "subprocess.run", !.op = r, !.calls = pc]
    /\ running' = running \ {pc}
    /\ status' = "calling"
    /\ UNCHANGED <<positive_tests, negative_tests, root_context, context, command,
                   registry_env, pc, exit_code, summary, calls, faulty>>

NextInvoker ==
    \/ subprocess_run_start
    \/ subprocess_run_return

SpecInvoker == InitInvoker /\ [][NextInvoker]_vars

---------------------------------------------------------------------------
(* The waits on their own: image_wait with every timeout and interval a     *)
(* caller may pass, system_wait with every value cli_driver_config may      *)
(* hold.  Neither function loops, sleeps or reads a clock: the timeout and  *)
(* the interval are formatted into the command line of the tool, and        *)
(* subprocess.run, which is given no timeout of its own, returns when the   *)
(* tool exits.  How long an invocation takes is therefore an input.         *)

\* Largest timeout and interval tried.
MaxTimeout == 2

MaxInterval == 2

Timeouts == -1..MaxTimeout

Intervals == 1..MaxInterval

\* The time one invocation of a wait command may take.  The tool is taken to
\* keep to the flags it is given: called with --timeout T >= 0 and
\* --interval I it exits 0 within T and gives up within T + I.  Called with
\* a negative timeout, or with no flags, nothing on the command line bounds
\* it.
ToolDurations(flags, timeout, interval, r) ==
    IF flags /\ timeout >= 0
    THEN IF RunRaises(r) THEN 0..(timeout + interval) ELSE 0..timeout
    ELSE 0..(MaxTimeout + MaxInterval + 1)

InitWait ==
    /\ positive_tests = EmptyLedger
    /\ negative_tests = EmptyLedger
    /\ root_context = AdminContext
    /\ context = AdminContext
    /\ command = "all"
    /\ registry_env = FALSE
    /\ pc = 0
    /\ status = "waiting"
    /\ exit_code = -1
    /\ summary = NoSummary
    /\ calls = 0
    /\ faulty = 0
    /\ running = {}
    /\ last = NoStep

\* the state after a wait that returned frame S
Waited_for(S, fn, test_type, timeout, interval, elapsed, wait, op) ==
    /\ positive_tests' = S.pos
    /\ negative_tests' = S.neg
    /\ calls' = S.calls
    /\ status' = "waited"
    /\ last' = [NoStep EXCEPT !.fn = fn, !.test_type = test_type, !.wait = wait, !.op = op,
                              !.cmds = S.cmds, !.pos = positive_tests,
                              !.neg = negative_tests, !.calls = calls,
                              !.timeout = timeout, !.interval = interval,
                              !.elapsed = elapsed]
    /\ UNCHANGED <<root_context, context, command, registry_env, pc, exit_code,
                   summary, faulty, running>>

\* image_wait(context, timeout, interval, test_type): 'image wait <image>'
\* with no flags first, then, if that exited 0, 'image wait <image>
\* --timeout <timeout> --interval <interval>'
call_image_wait_for ==
    /\ status = "waiting"
    /\ \E timeout \in Timeouts, interval \in Intervals, test_type \in Polarities,
          w \in WaitResults :
       \E d1 \in ToolDurations(FALSE, timeout, interval, w) :
         IF Waited(w)
         THEN \E r \in Results({"analyzed", "analyzing"}) :
              \E d2 \in ToolDurations(TRUE, timeout, interval, r) :
                Waited_for(image_wait(Frame(positive_tests, negative_tests, calls, context),
                                      test_type, w, r),
                           "image_wait", test_type, timeout, interval, d1 + d2, w, r)
         ELSE Waited_for(image_wait(Frame(positive_tests, negative_tests, calls, context),
                                    test_type, w, NotRun),
                         "image_wait", test_type, timeout, interval, d1, w, NotRun)

\* system_wait(context, log): one 'system wait --timeout <t> --interval <i>'
\* with the two values of cli_driver_config
call_system_wait_for ==
    /\ status = "waiting"
    /\ \E timeout \in Timeouts, interval \in Intervals, log \in BOOLEAN, r \in WaitResults :
       \E d \in ToolDurations(TRUE, timeout, interval, r) :
         Waited_for(system_wait(Frame(positive_tests, negative_tests, calls, context), log, r),
                    "system_wait", "positive", timeout, interval, d, NotRun, r)

NextWait ==
    \/ call_image_wait_for
    \/ call_system_wait_for

SpecWait == InitWait /\ [][NextWait]_vars

---------------------------------------------------------------------------
(* Checks called directly, with every combination of their keyword          *)
(* arguments: image_deletion calls image_del twice, and nothing in          *)
(* image_del ties force to the polarity.                                    *)

\* Direct calls followed.
MaxDirectCalls == 2

\* the frame a direct call starts from
Start == Frame(positive_tests, negative_tests, calls, context)

InitDirect ==
    /\ positive_tests = EmptyLedger
    /\ negative_tests = EmptyLedger
    /\ root_context = AdminContext
    /\ context = AdminContext
    /\ command = "all"
    /\ registry_env = FALSE
    /\ pc = 0
    /\ status = "direct"
    /\ exit_code = -1
    /\ summary = NoSummary
    /\ calls = 0
    /\ faulty = 0
    /\ running = {}
    /\ last = NoStep

\* the state after a direct call that returned frame S, or raised
Called(S, fn, test_type, opt, wait, op) ==
    /\ positive_tests' = S.pos
    /\ negative_tests' = S.neg
    /\ calls' = S.calls
    /\ pc' = pc + 1
    /\ status' = IF S.exc THEN "crashed" ELSE status
    /\ last' = [NoStep EXCEPT !.fn = fn, !.test_type = test_type, !.opt = opt,
                              !.wait = wait, !.op = op, !.cmds = S.cmds, !.raised = S.exc,
                              !.pos = positive_tests, !.neg = negative_tests,
                              !.calls = calls]
    /\ UNCHANGED <<root_context, context, command, registry_env, exit_code,
                   summary, faulty, running>>

\* image_del(context, force, test_type)
call_image_del_for ==
    /\ status = "direct"
    /\ pc < MaxDirectCalls
    /\ \E force \in BOOLEAN, test_type \in Polarities, w \in WaitResults :
         IF Waited(w)
         THEN \E r \in Results({"deleting", "active"}) :
                Called(image_del(Start, force, test_type, w, r), "image_del", test_type,
                       IF force THEN "force" ELSE "", w, r)
         ELSE Called(image_del(Start, force, test_type, w, NotRun), "image_del", test_type,
                     IF force THEN "force" ELSE "", w, NotRun)

NextDirect ==
    \/ call_image_del_for

SpecDirect == InitDirect /\ [][NextDirect]_vars

---------------------------------------------------------------------------
(* The feed checks, which run_cli_driver reaches only through the command   *)
(* system_feeds: one call of system_feeds_list, system_feeds_config_toggle  *)
(* or system_feeds_delete against every feed listing of up to MaxFeeds      *)
(* feeds with up to MaxGroups groups each.                                  *)

MaxFeeds == 2

MaxGroups == 2

\* A feed of the listing: feed["name"], feed["groups"], group["name"] and
\* group["enabled"].  Group names are unique across feeds.
Feed(i, flags) ==
    [name |-> i,
     groups |-> [j \in 1..Len(flags) |-> [name |-> <<i, j>>, enabled |-> flags[j]]]]

Listings ==
    { [i \in 1..Len(fl) |-> Feed(i, fl[i])] :
        fl \in UNION { [1..n -> UNION { [1..m -> BOOLEAN] : m \in 0..MaxGroups }] :
                         n \in 0..MaxFeeds } }

\* 'system feeds list': the listing the tool prints, or a failure
ListResults ==
    { [r |-> Ok("array", "feeds"), feeds |-> fs] : fs \in Listings } \cup
    { [r |-> f, feeds |-> <<>>] :
        f \in { Result("CalledProcessError", "nonjson", "None", "", 0),
                 Result("OSError", "none", "None", "", 0) } }

\* what system_feeds_list(..., return_feeds=True) returns: the decoded list,
\* or None (here the empty sequence, which 'not feeds' treats alike)
ReturnedFeeds(l) == IF RunRaises(l.r) THEN <<>> ELSE l.feeds

system_feeds_list(S, test_type, log, l) ==
    LET S1 == Run(S, "system feeds list") IN
    IF ~log
    THEN S1
    \* dump_response(..., response[0]) raises IndexError on an empty list
    ELSE IF RunRaises(l.r) \/ l.feeds = <<>>
         THEN log_explicit_failure(S1, test_type, "system_feeds_list", <<"failed to list feeds">>)
         ELSE log_results_simple(S1, "ok", "ok", test_type, "system_feeds_list",
                                 <<"feeds found">>)

\* for group in groups: if group["enabled"] != enable: break -- the value
\* group holds after the loop, given the value it held before
RECURSIVE InnerLoop(_, _, _, _)
InnerLoop(groups, enable, j, group) ==
    IF j > Len(groups) THEN group
    ELSE IF groups[j].enabled # enable THEN groups[j]
    ELSE InnerLoop(groups, enable, j + 1, groups[j])

\* for feed in feeds: <inner loop> -- the break leaves the inner loop only,
\* so the outer loop visits every feed
RECURSIVE OuterLoop(_, _, _, _)
OuterLoop(feeds, enable, i, group) ==
    IF i > Len(feeds) THEN group
    ELSE OuterLoop(feeds, enable, i + 1, InnerLoop(feeds[i].groups, enable, 1, group))

\* group was assigned by the loops: some feed has a group
GroupBound(feeds) == \E i \in 1..Len(feeds) : feeds[i].groups # <<>>

\* feed and group after the loops
LoopFeed(feeds) == feeds[Len(feeds)]

LoopGroup(feeds, enable) ==
    OuterLoop(feeds, enable, 1, [name |-> <<0, 0>>, enabled |-> enable])

\* str(response[0]["enabled"]) of the flag the check asked for
Flag(enable) == IF enable THEN "True" ELSE "False"

system_feeds_config_toggle(S, test_type, enable, l, r) ==
    LET S1 == system_feeds_list(S, "positive", FALSE, l)
        feeds == ReturnedFeeds(l)
    IN
    IF feeds = <<>>
    THEN log_explicit_failure(S1, test_type, "system_feeds_config_toggle",
                              <<"No feeds available">>)
    \* group["enabled"] on a name the loops never bound: UnboundLocalError,
    \* outside the try
    ELSE IF ~GroupBound(feeds) THEN Raise(S1)
    ELSE IF LoopGroup(feeds, enable).enabled = enable
    THEN log_explicit_failure(S1, test_type, "system_feeds_config_toggle",
                              <<"failed to find a group in any feed">>)
    ELSE LET S2 == Run(S1, <<"system feeds config", LoopGroup(feeds, enable).name,
                             Flag(enable), LoopFeed(feeds).name>>) IN
         IF RunRaises(r) \/ IndexRaises(r)
         THEN log_explicit_failure(S2, test_type, "system_feeds_config_toggle",
                                   <<"failed feed/group">>)
         ELSE IF Index(r) = Flag(enable)
         THEN log_results_simple(S2, "ok", "ok", test_type, "system_feeds_config_toggle",
                                 <<"toggled feed group">>)
         ELSE log_explicit_failure(S2, test_type, "system_feeds_config_toggle",
                                   <<"failed toggling feed group">>)

system_feeds_delete(S, test_type, l, r) ==
    LET S1 == system_feeds_list(S, "positive", FALSE, l)
        feeds == ReturnedFeeds(l)
    IN
    IF feeds = <<>>
    THEN log_explicit_failure(S1, test_type, "system_feeds_delete", <<"No feeds available">>)
    \* group["name"] on a name the loops never bound
    ELSE IF ~GroupBound(feeds) THEN Raise(S1)
    ELSE LET S2 == Run(S1, <<"system feeds delete", LoopGroup(feeds, TRUE).name,
                             LoopFeed(feeds).name>>) IN
         \* the handler formats its message with 'action', a name this
         \* function never binds: NameError leaves the handler
         IF RunRaises(r) \/ IndexRaises(r)
         THEN Raise(S2)
         ELSE IF Index(r) = "False"
         THEN log_results_simple(S2, "ok", "ok", test_type, "system_feeds_delete",
                                 <<"Deleted feed group">>)
         ELSE log_explicit_failure(S2, test_type, "system_feeds_delete",
                                   <<"Failed deleting feed group">>)

InitFeeds ==
    /\ positive_tests = EmptyLedger
    /\ negative_tests = EmptyLedger
    /\ root_context = AdminContext
    /\ context = AdminContext
    /\ command = "all"
    /\ registry_env = FALSE
    /\ pc = 0
    /\ status = "feeds"
    /\ exit_code = -1
    /\ summary = NoSummary
    /\ calls = 0
    /\ faulty = 0
    /\ running = {}
    /\ last = NoStep

\* the state after a feed check that returned frame S, or raised
Fed(S, fn, test_type, enable, l, op) ==
    /\ positive_tests' = S.pos
    /\ negative_tests' = S.neg
    /\ calls' = S.calls
    /\ status' = IF S.exc THEN "crashed" ELSE "returned"
    /\ last' = [NoStep EXCEPT !.fn = fn, !.test_type = test_type, !.wait = l.r, !.op = op,
                              !.cmds = S.cmds, !.raised = S.exc, !.pos = positive_tests,
                              !.neg = negative_tests, !.calls = calls,
                              !.feeds = ReturnedFeeds(l), !.enable = enable]
    /\ UNCHANGED <<root_context, context, command, registry_env, pc, exit_code,
                   summary, faulty, running>>

ToggleResults == Results({"True", "False"})

call_system_feeds_list ==
    /\ status = "feeds"
    /\ \E test_type \in Polarities, log \in BOOLEAN, l \in ListResults :
         Fed(system_feeds_list(Start, test_type, log, l),
             IF log THEN "system_feeds_list" ELSE "system_feeds_list_quiet",
             test_type, FALSE, l, NotRun)

call_system_feeds_config_toggle ==
    /\ status = "feeds"
    /\ \E test_type \in Polarities, enable \in BOOLEAN, l \in ListResults,
          r \in ToggleResults :
         LET S == system_feeds_config_toggle(Start, test_type, enable, l, r) IN
         Fed(S, "system_feeds_config_toggle", test_type, enable, l,
             IF Len(S.cmds) > 1 THEN r ELSE NotRun)

call_system_feeds_delete ==
    /\ status = "feeds"
    /\ \E test_type \in Polarities, l \in ListResults, r \in ToggleResults :
         LET S == system_feeds_delete(Start, test_type, l, r) IN
         Fed(S, "system_feeds_delete", test_type, FALSE, l,
             IF Len(S.cmds) > 1 THEN r ELSE NotRun)

NextFeeds ==
    \/ call_system_feeds_list
    \/ call_system_feeds_config_toggle
    \/ call_system_feeds_delete

SpecFeeds == InitFeeds /\ [][NextFeeds]_vars

---------------------------------------------------------------------------
(* The set-up helpers as the checks call them, with log=False: one call of   *)
(* account_add, account_user_add, random_image_data (image_get) or           *)
(* system_feeds_list against every result of the tool.                       *)

InitQuiet ==
    /\ positive_tests = EmptyLedger
    /\ negative_tests = EmptyLedger
    /\ root_context = AdminContext
    /\ context = AdminContext
    /\ command = "all"
    /\ registry_env = FALSE
    /\ pc = 0
    /\ status = "quiet"
    /\ exit_code = -1
    /\ summary = NoSummary
    /\ calls = 0
    /\ faulty = 0
    /\ running = {}
    /\ last = NoStep

\* the state after a helper that returned frame S, or raised; op is the
\* result of the tool call it made (of its first, for random_image_data)
Helped(S, fn, test_type, op, feeds) ==
    /\ positive_tests' = S.pos
    /\ negative_tests' = S.neg
    /\ calls' = S.calls
    /\ status' = IF S.exc THEN "crashed" ELSE "returned"
    /\ last' = [NoStep EXCEPT !.fn = fn, !.test_type = test_type, !.op = op,
                              !.cmds = S.cmds, !.raised = S.exc, !.pos = positive_tests,
                              !.neg = negative_tests, !.calls = calls, !.feeds = feeds]
    /\ UNCHANGED <<root_context, context, command, registry_env, pc, exit_code,
                   summary, faulty, running>>

\* account_add(context, name, email, test_type, log=False)
call_account_add_quiet ==
    /\ status = "quiet"
    /\ \E test_type \in Polarities, r \in HelperResults :
         Helped(account_add(Start, test_type, FALSE, r), "account_add", test_type, r, <<>>)

\* account_user_add(context, account, username, userpass, test_type, log=False)
call_account_user_add_quiet ==
    /\ status = "quiet"
    /\ \E test_type \in Polarities, r \in HelperResults :
         Helped(account_user_add(Start, test_type, FALSE, r), "account_user_add",
                test_type, r, <<>>)

\* random_image_data(context): image_get(context, return_images=True,
\* log=False), then random.choice(images), which raises on an empty list
call_random_image_data ==
    /\ status = "quiet"
    /\ \E gs \in [1..NumTestImages -> ImageGetResults] :
         LET S == image_get_all(Start, gs) IN
         Helped(IF Images(gs) = <<>> THEN Raise(S) ELSE S, "random_image_data",
                "positive", gs[1], <<>>)

\* system_feeds_list(context, return_feeds=True, log=False)
call_system_feeds_list_quiet ==
    /\ status = "quiet"
    /\ \E test_type \in Polarities, l \in ListResults :
         Helped(system_feeds_list(Start, test_type, FALSE, l), "system_feeds_list",
                test_type, l.r, ReturnedFeeds(l))

NextQuiet ==
    \/ call_account_add_quiet
    \/ call_account_user_add_quiet
    \/ call_random_image_data
    \/ call_system_feeds_list_quiet

SpecQuiet == InitQuiet /\ [][NextQuiet]_vars

---------------------------------------------------------------------------
(* Properties *)

BucketNames == {"positive-pass", "positive-fail", "negative-pass", "negative-fail"}

\* the four buckets of a ledger, by name
Buckets(pos, neg) ==
    [b \in BucketNames |->
        CASE b = "positive-pass" -> pos.pass
          [] b = "positive-fail" -> pos.fail
          [] b = "negative-pass" -> neg.pass
          [] b = "negative-fail" -> neg.fail]

\* the ledger now, and as the last step found it
Now == Buckets(positive_tests, negative_tests)

Before == Buckets(last.pos, last.neg)

Size(b) ==
    Len(b["positive-pass"]) + Len(b["positive-fail"]) + Len(b["negative-pass"])
        + Len(b["negative-fail"])

IsPrefix(s, t) == Len(s) <= Len(t) /\ SubSeq(t, 1, Len(s)) = s

\* the last step appended record to bucket b and left the other three alone
Filed(b, record) ==
    /\ Now[b] = Append(Before[b], record)
    /\ \A c \in BucketNames \ {b} : Now[c] = Before[c]

\* the last step appended one record, whatever it says, to bucket b and left
\* the other three alone
FiledOne(b) ==
    /\ Len(Now[b]) = Len(Before[b]) + 1
    /\ IsPrefix(Before[b], Now[b])
    /\ \A c \in BucketNames \ {b} : Now[c] = Before[c]

FailBucket(test_type) == IF test_type = "positive" THEN "positive-fail" ELSE "negative-fail"

\* the last step left the ledger as it was
NothingFiled == Now = Before

\* the last step was a check that got as far as its operation invocation
Operated == last.op # NotRun /\ last.fn \notin {"", "system_wait", "log_results_summary"}

\* the invocation could not be made, or exited non-zero with output that is
\* no JSON
TransportFailure(r) == r.exc = "OSError"

UndecodableFailure(r) == r.exc = "CalledProcessError" /\ r.body = "nonjson"

\* the tool rejected the operation with a JSON error body
StructuredFailure(r) == r.exc = "CalledProcessError" /\ r.body = "object"

\* the failures a check declares it expects: the three messages matched by
\* account_del, image_del and registry_add, the 403 matched by the non-admin
\* listings, and any failure of analysis_archive_images_del
Anticipated(fn, opt, r) ==
    \/ fn = "account_del" /\ r.message = MsgInvalidState
    \/ fn = "image_del" /\ r.message = MsgLatestTag
    \/ fn = "registry_add" /\ r.message = MsgRegistryExists
    \/ fn = "account_list" /\ opt = "account_override" /\ r.httpcode = Forbidden
    \/ fn = "account_user_list_case4" /\ r.httpcode = Forbidden
    \/ fn = "analysis_archive_images_del"

\* the precondition wait of the last check failed
WaitFailed == last.wait # NotRun /\ ~Waited(last.wait)

\* C1: for every desired state, actual state and polarity, log_results_simple
\* files the record per the truth table: equal and positive -> positive-pass,
\* equal and negative -> negative-fail, different and positive ->
\* positive-fail, different and negative -> negative-pass.
C1_TruthTable ==
    last.fn = "log_results_simple" =>
        Filed(IF last.state = last.desired
              THEN (IF last.test_type = "positive" THEN "positive-pass" ELSE "negative-fail")
              ELSE (IF last.test_type = "positive" THEN "positive-fail" ELSE "negative-pass"),
              last.record)

C1_Witness ==
    /\ last.fn = "log_results_simple"
    /\ last.state # last.desired
    /\ last.test_type = "negative"
    /\ Now["negative-pass"] # <<>>
    /\ Now["positive-pass"] # <<>>
    /\ Now["negative-fail"] # <<>>

\* C2: every call of log_results_simple or log_explicit_failure appends
\* exactly one record to exactly one of the four buckets and leaves the other
\* three buckets unchanged.
C2_ExactlyOneBucket ==
    last.fn \in {"log_results_simple", "log_explicit_failure"} =>
        /\ Cardinality({b \in BucketNames : Filed(b, last.record)}) = 1
        /\ Size(Now) = Size(Before) + 1

C2_Witness ==
    /\ last.fn = "log_explicit_failure"
    /\ last.test_type = "negative"
    /\ Size(Before) >= 2
    /\ Filed("negative-fail", last.record)

\* C3: at the end of a run the harness exits with status 1 if and only if
\* the positive-fail bucket or the negative-fail bucket is non-empty, and
\* with status 0 when both are empty.
C3_ExitStatus ==
    status \in {"exited", "crashed"} =>
        /\ exit_code \in {0, 1}
        /\ exit_code = 1 <=> (positive_tests.fail # <<>> \/ negative_tests.fail # <<>>)

\* C4: no exception raised inside a check terminates the run: whatever the
\* tool invocations return, the run ends only after every check of the queue
\* was executed and log_results_summary was reached.
C4_RunReachesSummary ==
    status \notin {"start", "running"} =>
        /\ status = "exited"
        /\ pc = Len(Prog) + 1
        /\ summary.counts # <<>>

\* C5: when the precondition wait ('image wait') of a check fails, the check
\* appends no record to any bucket, does not invoke its dependent operation,
\* and the run continues with the next check.
C5_FailedWaitSkips ==
    WaitFailed =>
        /\ NothingFiled
        /\ last.cmds[Len(last.cmds)].args = "image wait"
        /\ ~last.raised
        /\ status = "running"

\* C6: when the operation invocation of a check, made after any precondition
\* wait succeeded, fails by a transport failure or with output that cannot be
\* decoded, exactly one explicit-failure record is appended to the fail
\* bucket of the check's declared polarity, and the run continues.
C6_UnanticipatedFailureRecorded ==
    (Operated /\ last.helpers_ok
        /\ (TransportFailure(last.op) \/ UndecodableFailure(last.op))) =>
        /\ FiledOne(FailBucket(last.test_type))
        /\ ~last.raised

\* C7: when the tool rejects an operation with a structured failure whose
\* message matches none of the check's expected-failure patterns, the check
\* files an explicit-failure record in the fail bucket of its polarity; it
\* never files nothing.
C7_UnmatchedFailureRecorded ==
    (Operated /\ last.helpers_ok /\ StructuredFailure(last.op)
        /\ ~Anticipated(last.fn, last.opt, last.op)) =>
        /\ ~NothingFiled
        /\ FiledOne(FailBucket(last.test_type))

\* C8: when the tool exits non-zero and its stdout is not decodable JSON, the
\* failure stays with that check: no decode error escapes the check.
C8_DecodeErrorContained ==
    (Operated /\ UndecodableFailure(last.op)) => (~last.raised /\ status # "crashed")

\* the last check was account_del, rejected with 'Invalid account state change'
DeleteBlocked ==
    /\ last.fn = "account_del"
    /\ StructuredFailure(last.op)
    /\ last.op.message = MsgInvalidState

\* C9, as the specification states it: a positive account_del rejected with
\* 'Invalid account state change' is recorded as positive-pass.
C9_BlockedDeleteIsPositivePass ==
    (DeleteBlocked /\ last.test_type = "positive") =>
        Filed("positive-pass", <<"account_del", "could not delete account">>)

\* C9, as the code has it: account_del rejected with 'Invalid account state
\* change' classifies the synthesized state 'enabled' against the desired
\* state 'deleting'; the two differ, so a positive check is recorded as
\* positive-fail and a negative check as negative-pass.
C9_BlockedDeleteIsMismatch ==
    DeleteBlocked =>
        /\ Filed(IF last.test_type = "positive" THEN "positive-fail" ELSE "negative-pass",
                 <<"account_del", "could not delete account">>)
        /\ ~last.raised

C9_Witness ==
    /\ DeleteBlocked
    /\ last.test_type = "positive"
    /\ Now["positive-fail"] # <<>>

\* C10: the ledger is append-only: each bucket only grows at its end, no
\* record is changed, removed or reordered, and the sum of the four bucket
\* sizes equals the number of log_results_simple and log_explicit_failure
\* calls made so far (a skipped check adds nothing).
C10_AppendOnly ==
    /\ \A b \in BucketNames : IsPrefix(Before[b], Now[b])
    /\ Size(Before) = last.calls
    /\ Size(Now) = calls
    /\ calls >= last.calls

C10_Witness ==
    /\ WaitFailed
    /\ NothingFiled
    /\ Size(Now) = calls
    /\ calls >= 2
    /\ Now["positive-pass"] # <<>>
    /\ Now["negative-pass"] # <<>>

\* the heading log_results_summary logs above the records of a bucket
Heading ==
    [b \in BucketNames |->
        CASE b = "positive-pass" -> <<"Positive Tests Passed">>
          [] b = "positive-fail" -> <<"Positive Tests Failed">>
          [] b = "negative-pass" -> <<"Negative Tests Passed">>
          [] b = "negative-fail" -> <<"Negative Tests Failed">>]

\* a summary line that is a record: an action name and its message
IsRecord(line) == Len(line) > 1

\* lines holds the heading of bucket b directly followed by records
Listed(lines, b, records) ==
    \E i \in 1..Len(lines) :
        /\ lines[i] = Heading[b]
        /\ i + Len(records) <= Len(lines)
        /\ SubSeq(lines, i + 1, i + Len(records)) = records

\* C11: the summary lists, under the heading of each bucket that is not
\* empty, the records of that bucket in the order they were appended, lists
\* no other record, and then reports four counts equal to the sizes of the
\* positive-pass, positive-fail, negative-pass and negative-fail buckets.
C11_SummaryListsLedger ==
    last.fn = "log_results_summary" =>
        /\ \A b \in BucketNames : Now[b] # <<>> => Listed(summary.lines, b, Now[b])
        /\ Len(SelectSeq(summary.lines, IsRecord)) = Size(Now)
        /\ summary.counts = <<Len(Now["positive-pass"]), Len(Now["positive-fail"]),
                              Len(Now["negative-pass"]), Len(Now["negative-fail"])>>

\* a summary of a ledger with several records in a bucket and records in
\* three buckets
C11_Witness ==
    /\ last.fn = "log_results_summary"
    /\ Len(Now["positive-pass"]) > 1
    /\ Len(Now["negative-pass"]) > 1
    /\ Now["positive-fail"] # <<>>

\* C12: log_results_summary leaves all four buckets as it found them, and a
\* call of it made directly after another call of it, with no record
\* appended in between, logs the same lines and the same counts.
C12_SummaryIdempotent ==
    last.fn = "log_results_summary" =>
        /\ Now = Before
        /\ last.prev = "log_results_summary" => summary = last.summary

\* two summaries in a row of a ledger that holds records
C12_Witness ==
    /\ last.fn = "log_results_summary"
    /\ last.prev = "log_results_summary"
    /\ Now["positive-pass"] # <<>>
    /\ Now["negative-pass"] # <<>>
    /\ summary.lines # <<>>

\* the last step was a positive account_add, account_get or account_enable
\* whose invocation exited 0 with an account in state "enabled"
EnabledAsExpected ==
    /\ last.fn \in {"account_add", "account_get", "account_enable"}
    /\ last.test_type = "positive"
    /\ last.op = Ok("object", "enabled")

\* C13: a positive account_add, account_get or account_enable whose
\* invocation succeeds with state "enabled" appends exactly one record to
\* positive-pass, leaves the other buckets alone, and the record starts with
\* the name of the check.
C13_EnabledIsPositivePass ==
    EnabledAsExpected =>
        /\ FiledOne("positive-pass")
        /\ Now["positive-pass"][Len(Now["positive-pass"])][1] = last.fn
        /\ calls = last.calls + 1

\* account_enable succeeded with state "enabled"
C13_Witness == EnabledAsExpected /\ last.fn = "account_enable" /\ FiledOne("positive-pass")

\* the order in which the claim has the groups run
GroupOrder ==
    << "account", "image", "analysis_archive", "image_deletion", "evaluate", "repo",
       "event", "policy", "subscription", "system", "registry" >>

\* the checks each group function defines
GroupChecks ==
    [g \in Groups |->
        CASE g = "account" ->
               { "account_add", "account_get", "account_disable", "account_enable",
                 "account_del", "account_list", "account_user_list_case1",
                 "account_user_list_case2", "account_user_list_case3",
                 "account_user_list_case4", "account_user_add", "account_user_del",
                 "account_user_get", "account_user_setpassword", "account_whoami" }
          [] g = "image" ->
               { "image_add", "image_wait", "image_get", "image_content", "image_metadata",
                 "image_list", "image_vuln" }
          [] g = "analysis_archive" ->
               { "analysis_archive_images_add", "analysis_archive_images_del" }
          [] g = "image_deletion" -> { "image_del" }
          [] g = "evaluate" -> { "evaluate_check" }
          [] g = "repo" ->
               { "repo_add", "repo_list", "repo_get", "repo_unwatch", "repo_watch",
                 "repo_del" }
          [] g = "event" -> { "event" }
          [] g = "policy" -> { "policy" }
          [] g = "subscription" ->
               { "subscription_list", "subscription_activate", "subscription_deactivate" }
          [] g = "system" -> { "system_status", "system_errorcodes" }
          [] g = "registry" ->
               { "registry_add", "registry_list", "registry_get", "registry_del" }]

Checks == UNION { GroupChecks[g] : g \in Groups }

\* the place in GroupOrder of the group a check belongs to
Rank(fn) == CHOOSE i \in 1..Len(GroupOrder) : fn \in GroupChecks[GroupOrder[i]]

\* the last group that makes a call: registry makes none without its
\* environment variables
LastRank == IF registry_env THEN Len(GroupOrder) ELSE Len(GroupOrder) - 1

\* C14: with no command argument the first check after the start-up wait is
\* one of account, every later check belongs to the group of the check
\* before it or to the next group in the order account, image,
\* analysis_archive, image_deletion, evaluate, repo, event, policy,
\* subscription, system, registry, and the summary is produced only after a
\* check of the last group.
C14_GroupsInOrder ==
    [][ command = "all" =>
          /\ (last.fn = "system_wait" /\ last'.fn \in Checks) => Rank(last'.fn) = 1
          /\ (last.fn \in Checks /\ last'.fn \in Checks) =>
                Rank(last'.fn) \in { Rank(last.fn), Rank(last.fn) + 1 }
          /\ last'.fn = "log_results_summary" =>
                last.fn \in Checks /\ Rank(last.fn) = LastRank ]_vars

\* a run of all eleven groups that reached the summary
C14_Witness ==
    /\ command = "all"
    /\ registry_env
    /\ status = "exited"
    /\ last.fn = "log_results_summary"
    /\ last.prev \in GroupChecks["registry"]

\* C15: when the one argument names a group, the run makes the start-up
\* wait first, every check it executes is a check of that group, and the
\* summary directly follows the last of them (or the wait, when the group
\* makes no call).
C15_OnlyNamedGroup ==
    command \in Groups =>
        /\ status # "start" => last.fn \in GroupChecks[command] \cup {"system_wait", "log_results_summary"}
        /\ (status = "running" /\ pc = 1) => last.fn = "system_wait"
        /\ status = "exited" =>
              /\ last.fn = "log_results_summary"
              /\ IF Prog = <<>> THEN last.prev = "system_wait"
                 ELSE last.prev \in GroupChecks[command]

\* a run of image_deletion alone that reached the summary
C15_Witness ==
    /\ command = "image_deletion"
    /\ status = "exited"
    /\ last.prev = "image_del"
    /\ summary.lines # <<>>

\* C16: at most one child process is in flight at any moment: the caller
\* starts an invocation only when every earlier one has exited.
C16_OneInvocationInFlight ==
    /\ Cardinality(running) <= 1
    /\ status = "calling" => running = {}

\* the caller waits inside its third invocation after two that returned
C16_Witness ==
    /\ status = "waiting"
    /\ running = {pc}
    /\ pc > 2
    /\ last.fn = "subprocess.run"

\* the last step was a wait called with a timeout and an interval
WaitedWith == last.fn \in {"image_wait", "system_wait"} /\ last.interval > 0

\* the readiness attempts of the last wait: its wait invocations
Attempts == Len(last.cmds)

\* the last wait came back with the readiness signal: system_wait with exit
\* status 0, image_wait with analysis_status "analyzed"
Ready ==
    IF last.fn = "system_wait"
    THEN ~RunRaises(last.op)
    ELSE /\ Waited(last.wait)
         /\ ~RunRaises(last.op)
         /\ ~IndexRaises(last.op)
         /\ Index(last.op) = "analyzed"

Ceil(n, d) == (n + d - 1) \div d

\* C17: a wait with timeout 0 makes exactly one readiness attempt.
C17_ZeroTimeoutOneAttempt ==
    (WaitedWith /\ last.timeout = 0) => Attempts = 1

\* C18: a wait with a negative timeout returns only with the readiness
\* signal.
C18_NegativeTimeoutReturnsReady ==
    (WaitedWith /\ last.timeout < 0) => Ready

\* C19: a wait with timeout T > 0 and interval I makes at most ceil(T/I) + 1
\* readiness attempts, is not ready when it ran longer than T, and runs no
\* longer than T + I.
C19_BoundedWait ==
    (WaitedWith /\ last.timeout > 0) =>
        /\ Attempts <= Ceil(last.timeout, last.interval) + 1
        /\ last.elapsed > last.timeout => ~Ready
        /\ last.elapsed <= last.timeout + last.interval

\* C20: a check that got past its precondition wait, or has none, and
\* invoked its operation appends exactly one record: it does not return
\* without a record and it does not file a second one.
C20_OneRecordPerCheck ==
    (/\ Operated \/ (last.fn \in {"image_vuln", "image_metadata"} /\ Waited(last.wait))
     /\ ~WaitFailed
     /\ last.helpers_ok
     /\ ~last.raised) =>
        /\ Size(Now) = Size(Before) + 1
        /\ calls = last.calls + 1

\* C21: log_explicit_failure appends its record to positive-fail when the
\* polarity is "positive" and to negative-fail otherwise, and leaves both
\* pass buckets as they were.
C21_ExplicitFailureBucket ==
    last.fn = "log_explicit_failure" =>
        /\ Now[IF last.test_type = "positive" THEN "positive-fail" ELSE "negative-fail"]
             = Append(Before[IF last.test_type = "positive" THEN "positive-fail"
                                                              ELSE "negative-fail"],
                      last.record)
        /\ Now["positive-pass"] = Before["positive-pass"]
        /\ Now["negative-pass"] = Before["negative-pass"]

\* an explicit failure of each polarity filed on a ledger that holds passes
C21_Witness ==
    /\ last.fn = "log_explicit_failure"
    /\ last.test_type = "negative"
    /\ Now["negative-fail"] # <<>>
    /\ Now["positive-fail"] # <<>>
    /\ Now["positive-pass"] # <<>>

\* the groups of a listing, feed by feed and group by group within a feed
RECURSIVE Flatten(_)
Flatten(feeds) ==
    IF feeds = <<>> THEN <<>>
    ELSE [j \in 1..Len(Head(feeds).groups) |->
            [feed |-> Head(feeds).name, group |-> Head(feeds).groups[j].name,
             enabled |-> Head(feeds).groups[j].enabled]] \o Flatten(Tail(feeds))

\* the groups of the listing the last check fetched whose flag is not want
Differing(want) == SelectSeq(Flatten(last.feeds), LAMBDA g : g.enabled # want)

\* the commands the last check ran after its listing
Issued == SubSeq(last.cmds, 2, Len(last.cmds))

\* every feed of the listing the last check fetched has a group
AllFeedsHaveGroups ==
    last.feeds # <<>> /\ \A i \in 1..Len(last.feeds) : last.feeds[i].groups # <<>>

\* C22: on a listing whose feeds all have groups, system_feeds_config_toggle
\* issues the toggle command for the first group, in feed order then group
\* order, whose enabled flag differs from the requested value, and files the
\* 'failed to find' explicit failure without a toggle command only when no
\* group of any feed differs.
C22_TogglesFirstDiffering ==
    (last.fn = "system_feeds_config_toggle" /\ AllFeedsHaveGroups) =>
        IF Differing(last.enable) # <<>>
        THEN /\ Len(Issued) = 1
             /\ Issued[1].args = <<"system feeds config", Differing(last.enable)[1].group,
                                   Flag(last.enable), Differing(last.enable)[1].feed>>
        ELSE /\ Issued = <<>>
             /\ FiledOne(FailBucket(last.test_type))

\* C23: on a listing whose feeds all have groups, system_feeds_delete issues
\* its delete command, if any, for a group whose enabled flag is false in
\* the listing it fetched; when no group is disabled it issues none.
C23_DeletesOnlyDisabled ==
    (last.fn = "system_feeds_delete" /\ AllFeedsHaveGroups) =>
        \A k \in 1..Len(Issued) :
            \E n \in 1..Len(Differing(TRUE)) :
                Issued[k].args = <<"system feeds delete", Differing(TRUE)[n].group,
                                   Differing(TRUE)[n].feed>>

\* the last check was image_del, past its wait, rejected with 'cannot delete
\* image that is the latest of its tags, and has active subscription'
LatestTagRejected ==
    /\ last.fn = "image_del"
    /\ Waited(last.wait)
    /\ StructuredFailure(last.op)
    /\ last.op.message = MsgLatestTag

\* C24: when the tool rejects the delete of image_del with the latest-tag
\* message, a forced delete files one explicit failure in the fail bucket of
\* its polarity, and a non-forced delete is classified as a mismatch: one
\* record in negative-pass under negative polarity, in positive-fail under
\* positive polarity.
C24_LatestTagRejection ==
    LatestTagRejected =>
        /\ IF last.opt = "force"
           THEN FiledOne(FailBucket(last.test_type))
           ELSE FiledOne(IF last.test_type = "negative" THEN "negative-pass"
                                                        ELSE "positive-fail")
        /\ calls = last.calls + 1
        /\ ~last.raised

\* a non-forced negative delete rejected after a forced positive one was
C24_Witness ==
    /\ LatestTagRejected
    /\ last.opt = ""
    /\ last.test_type = "negative"
    /\ Now["negative-pass"] # <<>>
    /\ Now["positive-fail"] # <<>>

\* C25: the start-up system_wait appends no record, and no check is invoked
\* after a start-up wait that did not complete successfully.
C25_GatedByStartupWait ==
    [][ /\ last'.fn = "system_wait" =>
              (positive_tests' = positive_tests /\ negative_tests' = negative_tests)
        /\ (last.fn = "system_wait" /\ RunRaises(last.op)) => last'.fn \notin Checks ]_vars

\* the seven checks the claim follows, each with the bucket it is to file in
AccountLifecycle ==
    << <<"positive-pass", "account_add">>, <<"positive-pass", "account_get">>,
       <<"positive-pass", "account_disable">>, <<"positive-pass", "account_enable">>,
       <<"negative-pass", "account_del">>, <<"positive-pass", "account_disable">>,
       <<"positive-pass", "account_del">> >>

\* the action names of the records in bucket b
FiledNames(b) == [i \in 1..Len(Now[b]) |-> Now[b][i][1]]

\* the action names bucket b is to hold after the first k of the seven checks
LifecycleNames(b, k) ==
    LET mine == SelectSeq(SubSeq(AccountLifecycle, 1, k), LAMBDA e : e[1] = b)
    IN [i \in 1..Len(mine) |-> mine[i][2]]

\* the run is in the account group, k of the seven checks have run, and the
\* backend answered each as a healthy one does: enabled after add, get and
\* enable, disabled after disable, the delete of the enabled account
\* rejected with 'Invalid account state change', the delete of the disabled
\* one answered with state deleting
InLifecycle(k) ==
    /\ command \in {"account", "all"}
    /\ status = "running"
    /\ pc = k + 1
    /\ faulty = 0

\* C26: against such a backend the checks add, get, disable, enable, delete
\* (negative), disable, delete (positive) run in that order, and after each
\* of them the ledger holds exactly the records of the checks so far: four
\* positive-pass, then one negative-pass, then two more positive-pass, and
\* no fail record.
C26_AccountLifecycle ==
    \A k \in 1..Len(AccountLifecycle) :
        InLifecycle(k) =>
            /\ last.fn = AccountLifecycle[k][2]
            /\ \A b \in BucketNames : FiledNames(b) = LifecycleNames(b, k)

\* all seven checks have run
C26_Witness ==
    /\ InLifecycle(Len(AccountLifecycle))
    /\ Len(Now["positive-pass"]) > Len(Now["negative-pass"]) + 1
    /\ Now["negative-pass"] # <<>>
    /\ last.fn = "account_del"
    /\ last.test_type = "positive"

\* the records the last step appended to bucket b
New(b) == SubSeq(Now[b], Len(Before[b]) + 1, Len(Now[b]))

\* the last step appended the overall record of image_metadata or image_vuln
\* to bucket b
OverallFiled(b) ==
    \E i \in 1..Len(New(b)) :
        New(b)[i] \in { Format(fn, <<"all expected metadata keys found">>) :
                           fn \in {"image_metadata", "image_vuln"} }

\* C27: a call of image_metadata or image_vuln that appends the overall 'all
\* expected metadata keys found' record to a pass bucket appends it once and
\* appends nothing to either fail bucket.
C27_OverallPassExcludesFail ==
    (last.fn \in {"image_metadata", "image_vuln"}
        /\ (OverallFiled("positive-pass") \/ OverallFiled("negative-pass")))
    => /\ New("positive-fail") = <<>>
       /\ New("negative-fail") = <<>>
       /\ Cardinality({ i \in 1..Len(New("positive-pass")) :
                           New("positive-pass")[i] = Format(last.fn, <<"all expected metadata keys found">>) })
            + Cardinality({ i \in 1..Len(New("negative-pass")) :
                           New("negative-pass")[i] = Format(last.fn, <<"all expected metadata keys found">>) })
            = 1

\* image_vuln filed its per-key records and then the overall one
C27_Witness ==
    /\ last.fn = "image_vuln"
    /\ OverallFiled("positive-pass")
    /\ Len(New("positive-pass")) > 1

\* a call that filed a fail record after a per-key pass, and so no overall one
C27_FailedCall ==
    /\ last.fn = "image_vuln"
    /\ New("positive-pass") # <<>>
    /\ New("positive-fail") # <<>>

\* the helpers that take log=False
QuietHelpers == {"account_add", "account_user_add", "random_image_data", "system_feeds_list"}

\* C28: a helper invoked with log=False (account_add, account_user_add,
\* system_feeds_list, image_get as random_image_data uses it) leaves all
\* four buckets of the ledger as they were, whether its tool call succeeded
\* or failed.
C28_QuietHelpersFileNothing ==
    (status \in {"returned", "crashed"} /\ last.fn \in QuietHelpers) => NothingFiled

\* the last step was a check that overrides the credentials of its context
Overriding ==
    \/ last.fn = "account_list" /\ last.opt = "account_override"
    \/ last.fn = "account_user_list_case4"

\* every invocation the last step made went out with the admin user
AsAdmin == \A i \in 1..Len(last.cmds) : last.cmds[i].user = AdminContext.user

\* C29: once run_cli_driver has initialised root_context it holds the admin
\* credentials for good, and every check other than the two that override
\* the credentials of their context makes all its invocations as the admin
\* user, the checks that follow an overriding check included.
C29_AdminAfterOverride ==
    status # "start" =>
        /\ root_context = AdminContext
        /\ (last.fn \notin {"", "log_results_summary"} /\ ~Overriding) => AsAdmin

\* the check after account_list with account_override has run, and the
\* context it left behind is the admin's
C29_Witness ==
    /\ status = "running"
    /\ pc > 2
    /\ Prog[pc - 2].opt = "account_override"
    /\ last.fn = "account_user_list_case1"
    /\ last.cmds # <<>>
    /\ AsAdmin
    /\ root_context = AdminContext

PassBucket(test_type) == IF test_type = "positive" THEN "positive-pass" ELSE "negative-pass"

\* bucket b is one record longer in ledger after than in ledger before
Grew(before, after, b) ==
    Len(after[b]) = Len(before[b]) + 1 /\ IsPrefix(before[b], after[b])

\* a call under polarity test_type took the ledger from before to after by
\* filing one record in one of the two buckets of its polarity
FiledInOwn(before, after, test_type) ==
    /\ Grew(before, after, PassBucket(test_type)) # Grew(before, after, FailBucket(test_type))
    /\ \A b \in BucketNames \ {PassBucket(test_type), FailBucket(test_type)} :
           after[b] = before[b]
    /\ \A b \in {PassBucket(test_type), FailBucket(test_type)} :
           Grew(before, after, b) \/ after[b] = before[b]

\* two calls of log_results_simple in a row with the same desired and actual
\* state, one under each polarity
OppositeCalls ==
    /\ last.fn = "log_results_simple"
    /\ last'.fn = "log_results_simple"
    /\ last'.desired = last.desired
    /\ last'.state = last.state
    /\ last'.test_type # last.test_type

\* C30: when log_results_simple is called twice with the same desired and
\* actual state, once under each polarity, each call files one record in a
\* bucket of its own polarity, and one call files in its pass bucket exactly
\* when the other files in its fail bucket.
C30_OppositeVerdicts ==
    [][OppositeCalls =>
         LET after == Buckets(positive_tests', negative_tests') IN
         /\ FiledInOwn(Before, Now, last.test_type)
         /\ FiledInOwn(Now, after, last'.test_type)
         /\ Grew(Before, Now, PassBucket(last.test_type))
              <=> Grew(Now, after, FailBucket(last'.test_type))
         /\ Grew(Before, Now, FailBucket(last.test_type))
              <=> Grew(Now, after, PassBucket(last'.test_type))]_vars

\* a match was filed under positive polarity and then the same match under
\* negative polarity
C30_Witness ==
    /\ last.fn = "log_results_simple"
    /\ last.test_type = "negative"
    /\ last.state = last.desired
    /\ Before["positive-pass"] = <<last.record>>
    /\ Size(Before) = 1
    /\ Filed("negative-fail", last.record)

====
